---- MODULE Spec2Model ----
\* Paired "vulnerable / secure" Anchor programs of solana-security-patterns,
\* modelled as state machines over the persisted account store.
\*
\* Anchor account semantics used throughout:
\*   - Account<'info, T> holds an in-memory, deserialized copy of the account
\*     data; `vault.x = ...` changes that copy only.
\*   - the copy is written back to the account data (the system of record) by
\*     the generated exit code, and only when the handler returns Ok.
\*   - reload() replaces the in-memory copy by what the account data holds.
\*   - a handler that returns Err persists nothing; the runtime discards what
\*     the failed operation did.
EXTENDS Integers, Sequences, FiniteSets, TLC

\* cpiStore, cpiStack, cpiResult: example 04 (secure): the persisted accounts,
\* the handlers waiting in an external call, the last outcome.
\* acctStore, acctResult: example 01 (secure): the persisted accounts and the
\* last outcome.
\* closeStore, closeResult: example 05 (secure): the persisted accounts with
\* their lamports, and the last outcome.
VARIABLES cpiStore, cpiStack, cpiResult, acctStore, acctResult,
          closeStore, closeResult

vars == <<cpiStore, cpiStack, cpiResult, acctStore, acctResult,
          closeStore, closeResult>>

\* ---------------------------------------------------------------- bounds
U64Bits == 11
MaxDepth == 2

U64_MAX == 2^U64Bits - 1
U64 == 0..U64_MAX

\* ---------------------------------------------------------------- identities
Keys == {"A", "B"}
SystemProgram == "System"
OtherProgram == "Other"

\* ---------------------------------------------------------------- arithmetic
\* Option<u64>: {} is None, {x} is Some(x).
Unwrap(o) == CHOOSE x \in o : TRUE

checked_sub_unchecked(b, a) == {(b - a + 2^U64Bits) % 2^U64Bits}
checked_sub(b, a) == IF a > b THEN {} ELSE {b - a}

checked_add_wrapping(b, a) == {(b + a) % 2^U64Bits}
checked_add(b, a) == IF b + a > U64_MAX THEN {} ELSE {b + a}

\* ================================================================
\* Example 04, secure program (cpi_security_secure)
\* ================================================================
cpiVars == <<cpiStore, cpiStack, cpiResult>>

CpiProgramId == "CpiSecuritySecure"
TRUSTED_DEX_PROGRAM == "DEXProgram"
TRUSTED_VALIDATOR == "Validator"
AttackerProgram == "Attacker"
Programs == {TRUSTED_DEX_PROGRAM, TRUSTED_VALIDATOR, AttackerProgram}
CallbackPrograms == {TRUSTED_DEX_PROGRAM, AttackerProgram}

\* v1: an initialized vault of authority A; v2: an address that holds either
\* no account yet or an account another program owns.
CpiAddrs == {"v1", "v2"}

InstructionData == {<<>>, <<1>>}

\* Representative u64 inputs: zero, a mid-range value and the domain maximum.
CpiAmounts == {0, 1000, U64_MAX}
CpiBalances == {0, 1000, U64_MAX}
Fees == {0, 1}

UninitAccount ==
    [owner |-> SystemProgram, tag |-> "None", authority |-> "None",
     balance |-> 0, locked |-> FALSE]

\* The in-memory Vault of an Account<'info, Vault>.
Deserialize(acc) ==
    [authority |-> acc.authority, balance |-> acc.balance, locked |-> acc.locked]

\* Account<'info, Vault> and Signer<'info> deserialization, then the
\* #[account(mut, has_one = authority)] constraint.
CpiTryAccountsAnyAuthority(store, v, auth, signed) ==
    IF store[v].owner = SystemProgram THEN "AccountNotInitialized"
    ELSE IF store[v].owner # CpiProgramId THEN "AccountOwnedByWrongProgram"
    ELSE IF store[v].tag # "Vault" THEN "AccountDiscriminatorMismatch"
    ELSE IF ~signed THEN "AccountNotSigner"
    ELSE "Ok"
CpiTryAccounts(store, v, auth, signed) ==
    IF store[v].owner = SystemProgram THEN "AccountNotInitialized"
    ELSE IF store[v].owner # CpiProgramId THEN "AccountOwnedByWrongProgram"
    ELSE IF store[v].tag # "Vault" THEN "AccountDiscriminatorMismatch"
    ELSE IF ~signed THEN "AccountNotSigner"
    ELSE IF store[v].authority # auth THEN "ConstraintHasOne"
    ELSE "Ok"

\* Init constraint of InitializeVault: the authority signs, the account is new.
CpiTryInit(store, v, signed) ==
    IF ~signed THEN "AccountNotSigner"
    ELSE IF store[v].owner # SystemProgram THEN "AccountAlreadyInUse"
    ELSE "Ok"

\* Generated exit code: serialize the in-memory copy into the account data.
ExitSkipped(store, v, mem) == store
Exit(store, v, mem) ==
    [store EXCEPT ![v] = [@ EXCEPT !.authority = mem.authority,
                                   !.balance = mem.balance,
                                   !.locked = mem.locked]]

\* A handler returning Err: nothing is serialized and the store is what it
\* was when the operation began.
AbortPersisting(snap, v, mem) == Exit(snap, v, mem)
Abort(snap, v, mem) == snap

\* Account::reload(): the in-memory copy becomes what the account data holds.
ReloadStale(store, v, mem) == mem
Reload(store, v, mem) == Deserialize(store[v])


\* ---------------------------------------------------------------- observation
\* The outcome of the operation that completed last. pre/post are the vault's
\* persisted record before the operation began and after it completed;
\* target is the program id the caller supplied (or the one delegated to),
\* signal what the invocation returned, atReturn the persisted balance at the
\* moment the invocation returned, memLocked the in-memory lock at return.
BaseResult(op, err, v, depth, guarded, pre, post) ==
    [op |-> op, err |-> err, vault |-> v, depth |-> depth, guarded |-> guarded,
     pre |-> pre, post |-> post,
     amount |-> 0, fee |-> 0, initial |-> 0, reloaded |-> 0,
     delegated |-> FALSE, target |-> "none", signal |-> "none", atReturn |-> 0,
     memLocked |-> FALSE, unlocked |-> FALSE,
     authority |-> "none", signed |-> FALSE]

NoResult == BaseResult("none", "none", "v1", 0, FALSE, UninitAccount, UninitAccount)

Depth == Len(cpiStack)
Top == cpiStack[Len(cpiStack)]
Pop == SubSeq(cpiStack, 1, Len(cpiStack) - 1)

\* An operation starts either as a top-level instruction (empty stack) or from
\* inside the external program the top frame has delegated to.
Callable == Depth < MaxDepth

\* Some flash_loan on vault v is waiting in its external call.
InFlashLoan(v) ==
    \E i \in 1..Len(cpiStack) :
        cpiStack[i].op = "flash_loan" /\ cpiStack[i].vault = v

\* A handler waiting in its external call: its in-memory copy and locals, the
\* program id the caller supplied and the one delegated to, and the store as
\* it was when the operation began.
Frame(op, v, mem, amount, fee, initial, supplied, target) ==
    [op |-> op, vault |-> v, mem |-> mem, amount |-> amount, fee |-> fee,
     initial |-> initial, supplied |-> supplied, target |-> target,
     snap |-> cpiStore, guarded |-> InFlashLoan(v),
     authority |-> "none", signed |-> FALSE]

\* ---------------------------------------------------------------- initialize_vault
initialize_vault(mem, auth) ==
    [mem EXCEPT !.authority = auth, !.balance = 0, !.locked = FALSE]

InitializeVault(v, auth, signed) ==
    /\ Callable
    /\ LET verr == CpiTryInit(cpiStore, v, signed)
           created == [cpiStore EXCEPT ![v] = [@ EXCEPT !.owner = CpiProgramId,
                                                        !.tag = "Vault"]]
           mem == initialize_vault(Deserialize(created[v]), auth)
           post == IF verr = "Ok" THEN Exit(created, v, mem) ELSE cpiStore
       IN /\ cpiStore' = post
          /\ cpiResult' = [BaseResult("initialize_vault", verr, v, Depth,
                                      InFlashLoan(v), cpiStore[v], post[v])
                              EXCEPT !.authority = auth, !.signed = signed]
    /\ UNCHANGED cpiStack

\* ---------------------------------------------------------------- flash_loan
\* line 37: require!(!vault.locked, Reentrant)
GuardOpen(mem) == TRUE
GuardPasses(mem) == ~mem.locked

\* line 40: vault.locked = true
SetLock(mem) == [mem EXCEPT !.locked = TRUE]

\* line 80: vault.locked = false
ClearLock(mem) == [mem EXCEPT !.locked = FALSE]

\* lines 74-77: require!(vault.balance >= expected_total, NotRepaid)
RepaidAlways(balance, expected_total) == TRUE
Repaid(balance, expected_total) == balance >= expected_total

\* lines 34-59: everything up to the invoke. err = "Invoke" means the handler
\* reached the delegation with the in-memory copy mem.
flash_loan_enter(mem0, amount) ==
    IF ~GuardPasses(mem0)
    THEN [err |-> "Reentrant", mem |-> mem0, initial |-> 0]
    ELSE LET m1 == SetLock(mem0)
             initial_balance == m1.balance
             sub == checked_sub(m1.balance, amount)
         IN IF ~(amount > 0)
            THEN [err |-> "InvalidAmount", mem |-> m1, initial |-> initial_balance]
            ELSE IF ~(amount <= initial_balance)
            THEN [err |-> "InsufficientBalance", mem |-> m1, initial |-> initial_balance]
            ELSE IF sub = {}
            THEN [err |-> "ArithmeticError", mem |-> m1, initial |-> initial_balance]
            ELSE [err |-> "Invoke", mem |-> [m1 EXCEPT !.balance = Unwrap(sub)],
                  initial |-> initial_balance]

\* lines 61-83: the invoke has returned ok (TRUE) or an error (FALSE).
flash_loan_resume(store, f, ok) ==
    IF ~ok
    THEN [err |-> "ProgramError", mem |-> f.mem, reloaded |-> 0, unlocked |-> FALSE]
    ELSE LET m == Reload(store, f.vault, f.mem)
             expected_total == checked_add(f.initial, f.fee)
         IN IF expected_total = {}
            THEN [err |-> "ArithmeticError", mem |-> m, reloaded |-> m.balance,
                  unlocked |-> FALSE]
            ELSE IF ~Repaid(m.balance, Unwrap(expected_total))
            THEN [err |-> "NotRepaid", mem |-> m, reloaded |-> m.balance,
                  unlocked |-> FALSE]
            ELSE [err |-> "Ok", mem |-> ClearLock(m), reloaded |-> m.balance,
                  unlocked |-> TRUE]

FlashLoanCall(v, auth, signed) ==
    /\ Callable
    /\ LET verr == CpiTryAccounts(cpiStore, v, auth, signed)
           base == [BaseResult("flash_loan", verr, v, Depth, InFlashLoan(v),
                              cpiStore[v], cpiStore[v])
                              EXCEPT !.authority = auth, !.signed = signed]
       IN IF verr # "Ok"
          THEN /\ cpiResult' = base
               /\ UNCHANGED <<cpiStore, cpiStack>>
          ELSE \E amount \in CpiAmounts, expected_fee \in Fees,
                  callback_program \in CallbackPrograms :
               LET r == flash_loan_enter(Deserialize(cpiStore[v]), amount)
               IN IF r.err # "Invoke"
                  THEN /\ cpiStore' = Abort(cpiStore, v, r.mem)
                       /\ cpiResult' = [base EXCEPT !.err = r.err,
                                                    !.post = cpiStore'[v],
                                                    !.amount = amount,
                                                    !.initial = r.initial,
                                                    !.memLocked = r.mem.locked]
                       /\ UNCHANGED cpiStack
                  ELSE /\ cpiStack' = Append(cpiStack,
                               [Frame("flash_loan", v, r.mem, amount, expected_fee,
                                     r.initial, callback_program,
                                     callback_program)
                                EXCEPT !.authority = auth, !.signed = signed])
                       /\ cpiResult' = NoResult
                       /\ UNCHANGED cpiStore

FlashLoanReturn(ok) ==
    /\ Depth > 0
    /\ Top.op = "flash_loan"
    /\ LET f == Top
           r == flash_loan_resume(cpiStore, f, ok)
       IN /\ cpiStore' = IF r.err = "Ok"
                         THEN Exit(cpiStore, f.vault, r.mem)
                         ELSE Abort(f.snap, f.vault, r.mem)
          /\ cpiResult' =
                [BaseResult("flash_loan", r.err, f.vault, Depth - 1, f.guarded,
                            f.snap[f.vault], cpiStore'[f.vault])
                   EXCEPT !.authority = f.authority, !.signed = f.signed,
                          !.amount = f.amount, !.fee = f.fee,
                          !.initial = f.initial, !.reloaded = r.reloaded,
                          !.delegated = TRUE,
                          !.signal = IF ok THEN "ok" ELSE "err",
                          !.atReturn = cpiStore[f.vault].balance, !.target = f.target,
                          !.memLocked = r.mem.locked, !.unlocked = r.unlocked]
          /\ cpiStack' = Pop

\* ---------------------------------------------------------------- swap_tokens
\* lines 97-100: require!(dex_program.key() == TRUSTED_DEX_PROGRAM, InvalidProgram)
DexUnchecked(dex_program) == TRUE
DexTrusted(dex_program) == dex_program = TRUSTED_DEX_PROGRAM

\* lines 94-110: everything up to the invoke.
swap_tokens_enter(mem0, amount, dex_program) ==
    IF ~DexTrusted(dex_program)
    THEN [err |-> "InvalidProgram", mem |-> mem0]
    ELSE IF ~(amount > 0)
    THEN [err |-> "InvalidAmount", mem |-> mem0]
    ELSE IF ~(amount <= mem0.balance)
    THEN [err |-> "InsufficientBalance", mem |-> mem0]
    ELSE [err |-> "Invoke", mem |-> mem0]

\* lines 113-124: the invoke has returned.
swap_tokens_resume(store, f, ok) ==
    IF ~ok
    THEN [err |-> "ProgramError", mem |-> f.mem, reloaded |-> 0]
    ELSE LET m == Reload(store, f.vault, f.mem)
             sub == checked_sub(m.balance, f.amount)
         IN IF sub = {}
            THEN [err |-> "ArithmeticError", mem |-> m, reloaded |-> m.balance]
            ELSE [err |-> "Ok", mem |-> [m EXCEPT !.balance = Unwrap(sub)],
                  reloaded |-> m.balance]

SwapTokensCall(v, auth, signed) ==
    /\ Callable
    /\ LET verr == CpiTryAccounts(cpiStore, v, auth, signed)
           base == [BaseResult("swap_tokens", verr, v, Depth, InFlashLoan(v),
                              cpiStore[v], cpiStore[v])
                              EXCEPT !.authority = auth, !.signed = signed]
       IN IF verr # "Ok"
          THEN /\ cpiResult' = base
               /\ UNCHANGED <<cpiStore, cpiStack>>
          ELSE \E amount \in CpiAmounts, dex_program \in Programs :
               LET r == swap_tokens_enter(Deserialize(cpiStore[v]), amount,
                                          dex_program)
               IN IF r.err # "Invoke"
                  THEN /\ cpiStore' = Abort(cpiStore, v, r.mem)
                       /\ cpiResult' = [base EXCEPT !.err = r.err,
                                                    !.post = cpiStore'[v],
                                                    !.amount = amount,
                                                    !.target = dex_program,
                                                    !.memLocked = r.mem.locked]
                       /\ UNCHANGED cpiStack
                  ELSE /\ cpiStack' = Append(cpiStack,
                               [Frame("swap_tokens", v, r.mem, amount, 0,
                                     r.mem.balance, dex_program,
                                     TRUSTED_DEX_PROGRAM)
                                EXCEPT !.authority = auth, !.signed = signed])
                       /\ cpiResult' = NoResult
                       /\ UNCHANGED cpiStore

SwapTokensReturn(ok) ==
    /\ Depth > 0
    /\ Top.op = "swap_tokens"
    /\ LET f == Top
           r == swap_tokens_resume(cpiStore, f, ok)
       IN /\ cpiStore' = IF r.err = "Ok"
                         THEN Exit(cpiStore, f.vault, r.mem)
                         ELSE Abort(f.snap, f.vault, r.mem)
          /\ cpiResult' =
                [BaseResult("swap_tokens", r.err, f.vault, Depth - 1, f.guarded,
                            f.snap[f.vault], cpiStore'[f.vault])
                   EXCEPT !.authority = f.authority, !.signed = f.signed,
                          !.amount = f.amount, !.initial = f.initial,
                          !.reloaded = r.reloaded, !.delegated = TRUE,
                          !.signal = IF ok THEN "ok" ELSE "err",
                          !.atReturn = cpiStore[f.vault].balance,
                          !.target = f.target, !.memLocked = r.mem.locked]
          /\ cpiStack' = Pop

\* ---------------------------------------------------------------- execute_callback
\* lines 138-145: require!(external_program.key() == TRUSTED_VALIDATOR, InvalidProgram)
ValidatorUnchecked(external_program) == TRUE
ValidatorTrusted(external_program) == external_program = TRUSTED_VALIDATOR

\* lines 167-170: require!(vault.balance == balance_before, UnexpectedStateChange)
BalanceUnchecked(balance, balance_before) == TRUE
BalanceUnchanged(balance, balance_before) == balance = balance_before

\* line 160: require!(result.is_ok(), CallbackFailed)
ResultIgnored(ok) == TRUE
ResultIsOk(ok) == ok

\* lines 135-154: everything up to the invoke.
execute_callback_enter(mem0, external_program) ==
    IF ~ValidatorTrusted(external_program)
    THEN [err |-> "InvalidProgram", mem |-> mem0]
    ELSE IF ~ValidatorTrusted(external_program)
    THEN [err |-> "InvalidProgram", mem |-> mem0]
    ELSE [err |-> "Invoke", mem |-> mem0]

\* lines 157-173: the invoke has returned.
execute_callback_resume(store, f, ok) ==
    IF ~ResultIsOk(ok)
    THEN [err |-> "CallbackFailed", mem |-> f.mem, reloaded |-> 0]
    ELSE LET m == Reload(store, f.vault, f.mem)
         IN IF ~BalanceUnchanged(m.balance, f.initial)
            THEN [err |-> "UnexpectedStateChange", mem |-> m, reloaded |-> m.balance]
            ELSE [err |-> "Ok", mem |-> m, reloaded |-> m.balance]

ExecuteCallbackCall(v, auth, signed) ==
    /\ Callable
    /\ LET verr == CpiTryAccounts(cpiStore, v, auth, signed)
           base == [BaseResult("execute_callback", verr, v, Depth, InFlashLoan(v),
                              cpiStore[v], cpiStore[v])
                              EXCEPT !.authority = auth, !.signed = signed]
       IN IF verr # "Ok"
          THEN /\ cpiResult' = base
               /\ UNCHANGED <<cpiStore, cpiStack>>
          ELSE \E instruction_data \in InstructionData,
                  external_program \in Programs :
               LET r == execute_callback_enter(Deserialize(cpiStore[v]),
                                               external_program)
               IN IF r.err # "Invoke"
                  THEN /\ cpiStore' = Abort(cpiStore, v, r.mem)
                       /\ cpiResult' = [base EXCEPT !.err = r.err,
                                                    !.post = cpiStore'[v],
                                                    !.target = external_program,
                                                    !.memLocked = r.mem.locked]
                       /\ UNCHANGED cpiStack
                  ELSE /\ cpiStack' = Append(cpiStack,
                               [Frame("execute_callback", v, r.mem, 0, 0,
                                     r.mem.balance, external_program,
                                     TRUSTED_VALIDATOR)
                                EXCEPT !.authority = auth, !.signed = signed])
                       /\ cpiResult' = NoResult
                       /\ UNCHANGED cpiStore

ExecuteCallbackReturn(ok) ==
    /\ Depth > 0
    /\ Top.op = "execute_callback"
    /\ LET f == Top
           r == execute_callback_resume(cpiStore, f, ok)
       IN /\ cpiStore' = IF r.err = "Ok"
                         THEN Exit(cpiStore, f.vault, r.mem)
                         ELSE Abort(f.snap, f.vault, r.mem)
          /\ cpiResult' =
                [BaseResult("execute_callback", r.err, f.vault, Depth - 1,
                            f.guarded, f.snap[f.vault], cpiStore'[f.vault])
                   EXCEPT !.authority = f.authority, !.signed = f.signed,
                          !.amount = f.amount, !.initial = f.initial,
                          !.reloaded = r.reloaded, !.delegated = TRUE,
                          !.signal = IF ok THEN "ok" ELSE "err",
                          !.atReturn = cpiStore[f.vault].balance,
                          !.target = f.target, !.memLocked = r.mem.locked]
          /\ cpiStack' = Pop

\* ---------------------------------------------------------------- transfer_with_validation
transfer_unvalidated(mem0, amount) ==
    LET sub == checked_sub(mem0.balance, amount)
    IN IF sub = {}
       THEN [err |-> "ArithmeticError", mem |-> mem0]
       ELSE [err |-> "Ok", mem |-> [mem0 EXCEPT !.balance = Unwrap(sub)]]
\* lines 184-196
transfer_with_validation(mem0, amount) ==
    LET sub == checked_sub(mem0.balance, amount)
    IN IF ~(amount > 0)
       THEN [err |-> "InvalidAmount", mem |-> mem0]
       ELSE IF ~(amount <= mem0.balance)
       THEN [err |-> "InsufficientBalance", mem |-> mem0]
       ELSE IF sub = {}
       THEN [err |-> "ArithmeticError", mem |-> mem0]
       ELSE [err |-> "Ok", mem |-> [mem0 EXCEPT !.balance = Unwrap(sub)]]

TransferWithValidation(v, auth, signed) ==
    /\ Callable
    /\ LET verr == CpiTryAccounts(cpiStore, v, auth, signed)
           base == [BaseResult("transfer_with_validation", verr, v, Depth,
                              InFlashLoan(v), cpiStore[v], cpiStore[v])
                              EXCEPT !.authority = auth, !.signed = signed]
       IN IF verr # "Ok"
          THEN /\ cpiResult' = base
               /\ UNCHANGED cpiStore
          ELSE \E amount \in CpiAmounts :
               LET r == transfer_with_validation(Deserialize(cpiStore[v]), amount)
               IN /\ cpiStore' = IF r.err = "Ok"
                                 THEN Exit(cpiStore, v, r.mem)
                                 ELSE Abort(cpiStore, v, r.mem)
                  /\ cpiResult' = [base EXCEPT !.err = r.err,
                                               !.post = cpiStore'[v],
                                               !.amount = amount,
                                               !.initial = cpiStore[v].balance]
    /\ UNCHANGED cpiStack


\* ================================================================
\* Example 01, secure program (missing_validation_secure)
\* ================================================================
acctVars == <<acctStore, acctResult>>

ValidationProgramId == "Secur3Va1id"

\* ---------------------------------------------------------------- derived addresses
\* Bump seeds run from MaxBump down to 0 (255 down to 0 on chain).
MaxBump == 2
Bumps == 0..MaxBump

SeedIndex(seed) ==
    CASE seed = "user" -> 0 [] seed = "vault" -> 1 [] seed = "A" -> 0
      [] seed = "B" -> 1 [] OTHER -> 2

\* Whether the hash of (seeds, bump, program id) is a point off the curve,
\* i.e. usable as a program-derived address.
OffCurve(tag, key, bump) == (SeedIndex(tag) + SeedIndex(key) + bump) % 3 # 2

\* Pubkey::create_program_address: the address for the given bump, or an error.
\* The hash is collision free: the address names its preimage.
create_program_address(tag, key, bump) ==
    IF bump \in Bumps /\ OffCurve(tag, key, bump) THEN {<<tag, key, bump>>} ELSE {}

find_program_address_lowest(tag, key) ==
    LET valid == {b \in Bumps : OffCurve(tag, key, b)}
        bump == CHOOSE b \in valid : \A c \in valid : b <= c
    IN [address |-> <<tag, key, bump>>, bump |-> bump]
\* Pubkey::find_program_address: the first bump, from the maximum down, that
\* gives a valid address.
find_program_address(tag, key) ==
    LET valid == {b \in Bumps : OffCurve(tag, key, b)}
        bump == CHOOSE b \in valid : \A c \in valid : c <= b
    IN [address |-> <<tag, key, bump>>, bump |-> bump]

UserPda(key) == find_program_address("user", key).address
VaultPda(key) == find_program_address("vault", key).address

\* The address the lowest valid bump derives from the seeds of a key.
LowestPda(tag, key) ==
    LET valid == {b \in Bumps : OffCurve(tag, key, b)}
        bump == CHOOSE b \in valid : \A c \in valid : b <= c
    IN <<tag, key, bump>>

\* Valid addresses of A's seeds that are not the canonical ones.
NonCanonicalAddrs ==
    {LowestPda("user", "A"), LowestPda("vault", "A")}
        \ {UserPda("A"), VaultPda("A")}

\* An address no seed set of this program derives, holding an account of
\* another program.
ForeignAddr == <<"foreign", "B", 0>>

\* The canonical user and vault addresses of each key.
AcctAddrs == {UserPda(k) : k \in Keys} \cup {VaultPda(k) : k \in Keys}

\* The canonical addresses and the non-canonical addresses of A.
AllAcctAddrs == AcctAddrs \cup NonCanonicalAddrs

\* ---------------------------------------------------------------- accounts
\* One record shape for both account types; tag is the discriminator.
\* UserAccount uses authority, name, points, bump; Vault uses authority,
\* balance, bump.
EmptyAccount ==
    [owner |-> SystemProgram, tag |-> "None", authority |-> "None",
     name |-> "", points |-> 0, balance |-> 0, bump |-> 0]

Names == {"alice"}

\* Representative u64 inputs.
TransferAmounts == {0, 1000, U64_MAX}
WithdrawAmounts == {0, 400, 1500, U64_MAX}
InitialPoints == {0, 1000, U64_MAX}
InitialBalances == {0, 1000}

AccountCheckAnyOwner(acc, tag) ==
    IF acc.owner = SystemProgram THEN "AccountNotInitialized"
    ELSE IF acc.tag # tag THEN "AccountDiscriminatorMismatch"
    ELSE "Ok"
\* Account<'info, T>::try_from: initialized, owned by this program, and with
\* T's discriminator.
AccountCheck(acc, tag) ==
    IF acc.owner = SystemProgram THEN "AccountNotInitialized"
    ELSE IF acc.owner # ValidationProgramId THEN "AccountOwnedByWrongProgram"
    ELSE IF acc.tag # tag THEN "AccountDiscriminatorMismatch"
    ELSE "Ok"

\* Signer<'info>: the account must have signed the transaction.
SignerUnchecked(signed) == "Ok"
SignerCheck(signed) == IF signed THEN "Ok" ELSE "AccountNotSigner"

\* seeds = [tag, key], bump = stored bump: the address must be the one derived
\* with exactly that bump.
SeedsUnchecked(addr, tag, key, bump) == TRUE
SeedsMatch(addr, tag, key, bump) == create_program_address(tag, key, bump) = {addr}

\* First error of a list of checks, each "Ok" or an error name.
RECURSIVE FirstError(_)
FirstError(checks) ==
    IF checks = <<>> THEN "Ok"
    ELSE IF Head(checks) # "Ok" THEN Head(checks)
    ELSE FirstError(Tail(checks))

Check(cond, err) == IF cond THEN "Ok" ELSE err

\* #[derive(Accounts)] TransferPoints: the fields are deserialized in order,
\* then the constraints of each field are checked in order.
TransferPointsAccounts(store, from, to, authority, signed) ==
    FirstError(<<
        AccountCheck(store[from], "UserAccount"),
        AccountCheck(store[to], "UserAccount"),
        SignerCheck(signed),
        Check(SeedsMatch(from, "user", authority, store[from].bump), "ConstraintSeeds"),
        Check(store[from].authority = authority, "ConstraintHasOne"),
        Check(SeedsMatch(to, "user", store[to].authority, store[to].bump),
              "ConstraintSeeds") >>)

\* #[derive(Accounts)] Withdraw
WithdrawAccounts(store, vault, authority, signed) ==
    FirstError(<<
        AccountCheck(store[vault], "Vault"),
        SignerCheck(signed),
        Check(SeedsMatch(vault, "vault", authority, store[vault].bump), "ConstraintSeeds"),
        Check(store[vault].authority = authority, "ConstraintHasOne") >>)

InitAccountsAnyBump(store, addr, tag, authority, signed) ==
    FirstError(<<
        SignerCheck(signed),
        Check(addr \in {<<tag, authority, b>> : b \in {c \in Bumps : OffCurve(tag, authority, c)}},
              "ConstraintSeeds"),
        Check(store[addr].owner = SystemProgram, "AccountAlreadyInUse") >>)
\* #[derive(Accounts)] Initialize / InitializeVault: init with seeds and bump.
InitAccounts(store, addr, tag, authority, signed) ==
    FirstError(<<
        SignerCheck(signed),
        Check(addr = find_program_address(tag, authority).address, "ConstraintSeeds"),
        Check(store[addr].owner = SystemProgram, "AccountAlreadyInUse") >>)

\* ---------------------------------------------------------------- observation
\* The outcome of the last operation: its inputs, its error, and the records
\* of the accounts it named before and after (a = from / vault / new account,
\* b = to).
AcctOutcome(op, err, a, b, authority, signed, amount, post) ==
    [op |-> op, err |-> err, a |-> a, b |-> b, authority |-> authority,
     signed |-> signed, amount |-> amount,
     aPre |-> acctStore[a], bPre |-> acctStore[b],
     aPost |-> post[a], bPost |-> post[b]]

NoOutcome ==
    [op |-> "none", err |-> "none", a |-> UserPda("A"), b |-> UserPda("A"),
     authority |-> "A", signed |-> FALSE, amount |-> 0,
     aPre |-> EmptyAccount, bPre |-> EmptyAccount,
     aPost |-> EmptyAccount, bPost |-> EmptyAccount]

\* ---------------------------------------------------------------- initialize
initialize_unbound(acc, authority, name, bump) ==
    [acc EXCEPT !.name = name, !.points = 0, !.bump = bump]
initialize(acc, authority, name, bump) ==
    [acc EXCEPT !.authority = authority, !.name = name, !.points = 0,
                !.bump = bump]

Initialize(user_account, authority, signed, name) ==
    LET verr == InitAccounts(acctStore, user_account, "user", authority, signed)
        created == [EmptyAccount EXCEPT !.owner = ValidationProgramId,
                                        !.tag = "UserAccount"]
        post == IF verr = "Ok"
                THEN [acctStore EXCEPT ![user_account] =
                        initialize(created, authority, name,
                                   find_program_address("user", authority).bump)]
                ELSE acctStore
    IN /\ acctStore' = post
       /\ acctResult' = AcctOutcome("initialize", verr, user_account, user_account,
                                    authority, signed, 0, post)

\* ---------------------------------------------------------------- initialize_vault
initialize_vault_01(acc, authority, bump) ==
    [acc EXCEPT !.authority = authority, !.balance = 0, !.bump = bump]

InitializeVault01(vault, authority, signed) ==
    LET verr == InitAccounts(acctStore, vault, "vault", authority, signed)
        created == [EmptyAccount EXCEPT !.owner = ValidationProgramId,
                                        !.tag = "Vault"]
        post == IF verr = "Ok"
                THEN [acctStore EXCEPT ![vault] =
                        initialize_vault_01(created, authority,
                                   find_program_address("vault", authority).bump)]
                ELSE acctStore
    IN /\ acctStore' = post
       /\ acctResult' = AcctOutcome("initialize_vault", verr, vault, vault,
                                    authority, signed, 0, post)

\* ---------------------------------------------------------------- transfer_points
\* lines 42-60. from and to are two in-memory copies, also when both name the
\* same account.
transfer_points(from, to, amount) ==
    LET sub == checked_sub(from.points, amount)
        add == checked_add(to.points, amount)
    IN IF sub = {}
       THEN [err |-> "InsufficientPoints", from |-> from, to |-> to]
       ELSE IF add = {}
       THEN [err |-> "Overflow", from |-> [from EXCEPT !.points = Unwrap(sub)],
             to |-> to]
       ELSE [err |-> "Ok", from |-> [from EXCEPT !.points = Unwrap(sub)],
             to |-> [to EXCEPT !.points = Unwrap(add)]]

\* Generated exit code: the accounts are serialized in field order, from
\* first and to second.
TransferPointsExit(store, from, to, r) ==
    [[store EXCEPT ![from] = r.from] EXCEPT ![to] = r.to]

\* The handler returned Err: nothing is serialized.
TransferPointsAbortPartial(store, from, to, r) == TransferPointsExit(store, from, to, r)
TransferPointsAbort(store, from, to, r) == store

TransferPoints(from, to, authority, signed) ==
    LET verr == TransferPointsAccounts(acctStore, from, to, authority, signed)
    IN IF verr # "Ok"
       THEN /\ acctResult' = AcctOutcome("transfer_points", verr, from, to,
                                         authority, signed, 0, acctStore)
            /\ UNCHANGED acctStore
       ELSE \E amount \in TransferAmounts :
            LET r == transfer_points(acctStore[from], acctStore[to], amount)
                post == IF r.err = "Ok"
                        THEN TransferPointsExit(acctStore, from, to, r)
                        ELSE TransferPointsAbort(acctStore, from, to, r)
            IN /\ acctStore' = post
               /\ acctResult' = AcctOutcome("transfer_points", r.err, from, to,
                                            authority, signed, amount, post)

\* ---------------------------------------------------------------- withdraw
\* lines 80-89
withdraw(vault, amount) ==
    LET sub == checked_sub(vault.balance, amount)
    IN IF sub = {}
       THEN [err |-> "InsufficientBalance", vault |-> vault]
       ELSE [err |-> "Ok", vault |-> [vault EXCEPT !.balance = Unwrap(sub)]]

Withdraw(vault, authority, signed) ==
    LET verr == WithdrawAccounts(acctStore, vault, authority, signed)
    IN IF verr # "Ok"
       THEN /\ acctResult' = AcctOutcome("withdraw", verr, vault, vault,
                                         authority, signed, 0, acctStore)
            /\ UNCHANGED acctStore
       ELSE \E amount \in WithdrawAmounts :
            LET r == withdraw(acctStore[vault], amount)
                post == IF r.err = "Ok"
                        THEN [acctStore EXCEPT ![vault] = r.vault]
                        ELSE acctStore
            IN /\ acctStore' = post
               /\ acctResult' = AcctOutcome("withdraw", r.err, vault, vault,
                                            authority, signed, amount, post)

\* ================================================================
\* Example 05, secure program (account_closure_secure)
\* ================================================================
\* Accounts carry lamports (the residual value a closure pays out), the
\* length of their data, and the data itself.  The #[account(close = x)]
\* constraint makes the generated exit code close the account instead of
\* serializing it.  A `mut` Account<'info, Vault> without `close` is
\* serialized at exit into the account's data, which fails with
\* AccountDidNotSerialize when the data no longer has room for it.
closeVars == <<closeStore, closeResult>>

ClosureProgramId == "AccountClosureSecure"

\* Vault addresses (keypair accounts); the wallets are named by their keys.
VaultAddrs == {"c1", "c2"}
CloseAddrs == VaultAddrs \cup Keys

\* Vault::LEN and the space of a vault account.
VaultLEN == 32 + 8
VaultSpace == 8 + VaultLEN

\* Rent::minimum_balance, at one lamport per byte.
minimum_balance(space) == space


\* An address holding nothing: no lamports, no data, owned by the system
\* program.
ClosedAccount ==
    [owner |-> SystemProgram, lamports |-> 0, space |-> 0,
     tag |-> "None", authority |-> "None", balance |-> 0]

Wallet(lamports) == [ClosedAccount EXCEPT !.lamports = lamports]

VaultAccount(authority, balance, lamports) ==
    [owner |-> ClosureProgramId, lamports |-> lamports, space |-> VaultSpace,
     tag |-> "Vault", authority |-> authority, balance |-> balance]

CloseAccountCheckAnyOwner(acc) ==
    IF acc.owner = SystemProgram /\ acc.lamports = 0 THEN "AccountNotInitialized"
    ELSE IF acc.space < 8 THEN "AccountDiscriminatorNotFound"
    ELSE IF acc.tag # "Vault" THEN "AccountDiscriminatorMismatch"
    ELSE "Ok"
\* Account<'info, Vault>::try_from
CloseAccountCheck(acc) ==
    IF acc.owner = SystemProgram /\ acc.lamports = 0 THEN "AccountNotInitialized"
    ELSE IF acc.owner # ClosureProgramId THEN "AccountOwnedByWrongProgram"
    ELSE IF acc.space < 8 THEN "AccountDiscriminatorNotFound"
    ELSE IF acc.tag # "Vault" THEN "AccountDiscriminatorMismatch"
    ELSE "Ok"

\* has_one = authority
HasOneUnchecked(acc, authority) == "Ok"
HasOne(acc, authority) ==
    IF acc.authority = authority THEN "Ok" ELSE "ConstraintHasOne"

\* #[derive(Accounts)] CloseVaultExplicit / CloseValidatedDest:
\* #[account(mut, has_one = authority)] vault, authority: Signer.
CloseExplicitAccounts(store, vault, authority, signed) ==
    FirstError(<<
        CloseAccountCheck(store[vault]),
        SignerCheck(signed),
        HasOne(store[vault], authority) >>)

\* #[derive(Accounts)] CloseVaultSafe / CloseIfEmpty:
\* #[account(mut, close = authority, has_one = authority)] vault,
\* authority: Signer.
CloseSafeAccounts(store, vault, authority, signed) ==
    FirstError(<<
        CloseAccountCheck(store[vault]),
        SignerCheck(signed),
        HasOne(store[vault], authority),
        Check(vault # authority, "ConstraintClose") >>)

\* #[derive(Accounts)] InitializeVault: #[account(init, payer = authority,
\* space = 8 + Vault::LEN)] on a keypair account.  The system program creates
\* the account: the new account must sign, hold nothing yet, and the payer
\* must afford the rent.
CloseInitAccounts(store, vault, authority, signed, vault_signed) ==
    FirstError(<<
        SignerCheck(signed),
        Check(vault_signed, "MissingRequiredSignature"),
        Check(store[vault] = ClosedAccount, "AccountAlreadyInUse"),
        Check(store[authority].lamports >= minimum_balance(VaultSpace),
              "InsufficientLamports") >>)

\* ---------------------------------------------------------------- exit
\* anchor_lang::common::close: all lamports go to the destination, the
\* account is assigned to the system program and its data is emptied.
close_keeping_data(store, vault, sol_destination) ==
    [store EXCEPT ![sol_destination].lamports = @ + store[vault].lamports,
                  ![vault].lamports = 0]
close(store, vault, sol_destination) ==
    [store EXCEPT ![sol_destination].lamports = @ + store[vault].lamports,
                  ![vault] = ClosedAccount]

\* AccountsExit of a `mut` Account<'info, Vault>: the in-memory Vault is
\* serialized behind the discriminator, if the data has room for it.
SerializeUnchecked(store, vault, mem) == [err |-> "Ok", store |-> store]
Serialize(store, vault, mem) ==
    IF store[vault].space < VaultSpace
    THEN [err |-> "AccountDidNotSerialize", store |-> store]
    ELSE [err |-> "Ok",
          store |-> [store EXCEPT ![vault].tag = "Vault",
                                  ![vault].authority = mem.authority,
                                  ![vault].balance = mem.balance]]

\* AccountInfo::realloc(0, false)
realloc_zero(store, vault) ==
    [store EXCEPT ![vault].space = 0, ![vault].tag = "None",
                  ![vault].authority = "None", ![vault].balance = 0]

\* ---------------------------------------------------------------- observation
\* The outcome of the last operation, with the whole store before and after.
CloseOutcome(op, err, vault, authority, signed, destination, post) ==
    [op |-> op, err |-> err, vault |-> vault, authority |-> authority,
     signed |-> signed, destination |-> destination,
     pre |-> closeStore, post |-> post]

NoCloseOutcome ==
    [op |-> "none", err |-> "none", vault |-> "c1", authority |-> "A",
     signed |-> FALSE, destination |-> "A",
     pre |-> [a \in CloseAddrs |-> ClosedAccount],
     post |-> [a \in CloseAddrs |-> ClosedAccount]]

CommitAlways(op, r, vault, authority, signed, destination) ==
    /\ closeStore' = r.store
    /\ closeResult' = CloseOutcome(op, r.err, vault, authority, signed,
                                   destination, r.store)
\* A handler outcome is committed when Ok and discarded otherwise.
Commit(op, r, vault, authority, signed, destination) ==
    LET post == IF r.err = "Ok" THEN r.store ELSE closeStore
    IN /\ closeStore' = post
       /\ closeResult' = CloseOutcome(op, r.err, vault, authority, signed,
                                      destination, post)

Reject(op, verr, vault, authority, signed, destination) ==
    /\ closeResult' = CloseOutcome(op, verr, vault, authority, signed,
                                   destination, closeStore)
    /\ UNCHANGED closeStore

\* ---------------------------------------------------------------- initialize_vault
\* lines 10-17, after the account was created and funded by the payer.
initialize_vault_05(store, vault, authority) ==
    LET created == [[store EXCEPT ![authority].lamports =
                                      @ - minimum_balance(VaultSpace)]
                       EXCEPT ![vault] = VaultAccount("None", 0,
                                             minimum_balance(VaultSpace))]
        mem == [authority |-> authority, balance |-> 1000]
    IN Serialize(created, vault, mem)

InitializeVault05(vault, authority, signed, vault_signed) ==
    LET verr == CloseInitAccounts(closeStore, vault, authority, signed, vault_signed)
    IN IF verr # "Ok"
       THEN Reject("initialize_vault", verr, vault, authority, signed, authority)
       ELSE Commit("initialize_vault",
                   initialize_vault_05(closeStore, vault, authority),
                   vault, authority, signed, authority)

\* ---------------------------------------------------------------- close_vault_safe
\* lines 26-29: the handler does nothing; the exit code closes the vault to
\* the authority.
close_vault_safe(store, vault, authority) ==
    [err |-> "Ok", store |-> close(store, vault, authority)]

CloseVaultSafe(vault, authority, signed) ==
    LET verr == CloseSafeAccounts(closeStore, vault, authority, signed)
    IN IF verr # "Ok"
       THEN Reject("close_vault_safe", verr, vault, authority, signed, authority)
       ELSE Commit("close_vault_safe",
                   close_vault_safe(closeStore, vault, authority),
                   vault, authority, signed, authority)

\* ---------------------------------------------------------------- manual closure
\* lines 52-62 and 84-92: move every lamport of the vault to the destination
\* and shrink the vault's data to nothing; the owner stays the program.
drain_and_realloc(store, vault, dest) ==
    LET lamports == store[vault].lamports
        moved == IF dest = vault THEN store
                 ELSE [store EXCEPT ![vault].lamports = @ - lamports,
                                    ![dest].lamports = @ + lamports]
    IN realloc_zero(moved, vault)

\* ---------------------------------------------------------------- close_vault_explicit
\* lines 35-66, then the exit code serializes the vault.
close_vault_explicit(store, vault, authority) ==
    LET mem == [authority |-> store[vault].authority,
                balance |-> store[vault].balance]
    IN IF mem.authority # authority
       THEN [err |-> "Unauthorized", store |-> store]
       ELSE IF store[vault].owner # ClosureProgramId
       THEN [err |-> "InvalidOwner", store |-> store]
       ELSE Serialize(drain_and_realloc(store, vault, authority), vault, mem)

CloseVaultExplicit(vault, authority, signed) ==
    LET verr == CloseExplicitAccounts(closeStore, vault, authority, signed)
    IN IF verr # "Ok"
       THEN Reject("close_vault_explicit", verr, vault, authority, signed, authority)
       ELSE Commit("close_vault_explicit",
                   close_vault_explicit(closeStore, vault, authority),
                   vault, authority, signed, authority)

\* ---------------------------------------------------------------- close_with_validated_destination
\* lines 72-96, then the exit code serializes the vault.
DestinationUnchecked(destination, authority) == TRUE
DestinationIsAuthority(destination, authority) == destination = authority

close_with_validated_destination(store, vault, authority, destination) ==
    LET mem == [authority |-> store[vault].authority,
                balance |-> store[vault].balance]
    IN IF ~DestinationIsAuthority(destination, authority)
       THEN [err |-> "InvalidDestination", store |-> store]
       ELSE Serialize(drain_and_realloc(store, vault, destination), vault, mem)

CloseValidatedDest(vault, authority, signed, destination) ==
    LET verr == CloseExplicitAccounts(closeStore, vault, authority, signed)
    IN IF verr # "Ok"
       THEN Reject("close_with_validated_destination", verr, vault, authority,
                   signed, destination)
       ELSE Commit("close_with_validated_destination",
                   close_with_validated_destination(closeStore, vault, authority,
                                                    destination),
                   vault, authority, signed, destination)

\* ---------------------------------------------------------------- close_if_empty
\* lines 102-114, then the exit code closes the vault to the authority.
EmptyUnchecked(balance) == TRUE
IsEmpty(balance) == balance = 0

close_if_empty(store, vault, authority) ==
    IF ~IsEmpty(store[vault].balance)
    THEN [err |-> "VaultNotEmpty", store |-> store]
    ELSE [err |-> "Ok", store |-> close(store, vault, authority)]

CloseIfEmpty(vault, authority, signed) ==
    LET verr == CloseSafeAccounts(closeStore, vault, authority, signed)
    IN IF verr # "Ok"
       THEN Reject("close_if_empty", verr, vault, authority, signed, authority)
       ELSE Commit("close_if_empty",
                   close_if_empty(closeStore, vault, authority),
                   vault, authority, signed, authority)

\* ================================================================
\* Specifications: one per program; the other programs' state stays idle.
\* ================================================================
CpiIdle ==
    /\ cpiStore = [a \in CpiAddrs |-> UninitAccount]
    /\ cpiStack = <<>>
    /\ cpiResult = NoResult

AcctIdle ==
    /\ acctStore = [a \in AcctAddrs |-> EmptyAccount]
    /\ acctResult = NoOutcome

CloseIdle ==
    /\ closeStore = [a \in CloseAddrs |-> ClosedAccount]
    /\ closeResult = NoCloseOutcome

ForeignAccount ==
    [owner |-> OtherProgram, tag |-> "Vault", authority |-> "B",
     balance |-> U64_MAX, locked |-> FALSE]

\* The vault's balance is a business payload the environment supplies.
CpiInit ==
    /\ \E b \in CpiBalances, other \in {UninitAccount, ForeignAccount} :
         cpiStore = [a \in CpiAddrs |->
            IF a = "v1"
            THEN [owner |-> CpiProgramId, tag |-> "Vault", authority |-> "A",
                  balance |-> b, locked |-> FALSE]
            ELSE other]
    /\ cpiStack = <<>>
    /\ cpiResult = NoResult
    /\ AcctIdle /\ CloseIdle

CpiNext ==
    \/ \E v \in CpiAddrs, auth \in Keys, signed \in BOOLEAN :
         InitializeVault(v, auth, signed) /\ UNCHANGED <<acctVars, closeVars>>
    \/ \E v \in CpiAddrs, auth \in Keys, signed \in BOOLEAN :
         FlashLoanCall(v, auth, signed) /\ UNCHANGED <<acctVars, closeVars>>
    \/ \E ok \in BOOLEAN : FlashLoanReturn(ok) /\ UNCHANGED <<acctVars, closeVars>>
    \/ \E v \in CpiAddrs, auth \in Keys, signed \in BOOLEAN :
         SwapTokensCall(v, auth, signed) /\ UNCHANGED <<acctVars, closeVars>>
    \/ \E ok \in BOOLEAN : SwapTokensReturn(ok) /\ UNCHANGED <<acctVars, closeVars>>
    \/ \E v \in CpiAddrs, auth \in Keys, signed \in BOOLEAN :
         ExecuteCallbackCall(v, auth, signed) /\ UNCHANGED <<acctVars, closeVars>>
    \/ \E ok \in BOOLEAN : ExecuteCallbackReturn(ok) /\ UNCHANGED <<acctVars, closeVars>>
    \/ \E v \in CpiAddrs, auth \in Keys, signed \in BOOLEAN :
         TransferWithValidation(v, auth, signed) /\ UNCHANGED <<acctVars, closeVars>>

SpecCpiSecure ==
    /\ CpiInit
    /\ [][CpiNext]_vars


UserRecord(key, points) ==
    [owner |-> ValidationProgramId, tag |-> "UserAccount", authority |-> key,
     name |-> "alice", points |-> points, balance |-> 0,
     bump |-> find_program_address("user", key).bump]

VaultRecord(key, balance) ==
    [owner |-> ValidationProgramId, tag |-> "Vault", authority |-> key,
     name |-> "", points |-> 0, balance |-> balance,
     bump |-> find_program_address("vault", key).bump]

\* A user account of another program, with the layout of this program's.
ForeignUser ==
    [owner |-> OtherProgram, tag |-> "UserAccount", authority |-> "B",
     name |-> "alice", points |-> U64_MAX, balance |-> U64_MAX, bump |-> 0]

\* A's user account and vault exist, B's are created by the program or not
\* yet; points and balances are business payloads the environment supplies.
AcctInit ==
    /\ \E pA \in InitialPoints, bA \in InitialBalances,
          uB \in {EmptyAccount} \cup {UserRecord("B", p) : p \in InitialPoints} :
         acctStore = [a \in AcctAddrs |->
            CASE a = UserPda("A") -> UserRecord("A", pA)
              [] a = VaultPda("A") -> VaultRecord("A", bA)
              [] a = UserPda("B") -> uB
              [] OTHER -> EmptyAccount]
    /\ acctResult = NoOutcome
    /\ CpiIdle /\ CloseIdle

AcctNext ==
    \/ \E a \in DOMAIN acctStore, k \in Keys, signed \in BOOLEAN, name \in Names :
         Initialize(a, k, signed, name) /\ UNCHANGED <<cpiVars, closeVars>>
    \/ \E a \in DOMAIN acctStore, k \in Keys, signed \in BOOLEAN :
         InitializeVault01(a, k, signed) /\ UNCHANGED <<cpiVars, closeVars>>
    \/ \E from \in DOMAIN acctStore, to \in DOMAIN acctStore, k \in Keys, signed \in BOOLEAN :
         TransferPoints(from, to, k, signed) /\ UNCHANGED <<cpiVars, closeVars>>
    \/ \E v \in DOMAIN acctStore, k \in Keys, signed \in BOOLEAN :
         Withdraw(v, k, signed) /\ UNCHANGED <<cpiVars, closeVars>>

SpecValidationSecure ==
    /\ AcctInit
    /\ [][AcctNext]_vars

\* The same program on a ledger that also holds the non-canonical addresses
\* of A's seeds.
AddrInit ==
    /\ \E uB \in {EmptyAccount, UserRecord("B", 0)} :
         acctStore = [a \in AllAcctAddrs |->
            CASE a = UserPda("A") -> UserRecord("A", 1000)
              [] a = VaultPda("A") -> VaultRecord("A", 400)
              [] a = UserPda("B") -> uB
              [] OTHER -> EmptyAccount]
    /\ acctResult = NoOutcome
    /\ CpiIdle /\ CloseIdle

SpecValidationAddresses ==
    /\ AddrInit
    /\ [][AcctNext]_vars

\* An account of another program at c2, with the layout of a vault.
ForeignVault ==
    [owner |-> OtherProgram, lamports |-> minimum_balance(VaultSpace),
     space |-> VaultSpace, tag |-> "Vault", authority |-> "B", balance |-> 0]

\* c1 is a vault of A; its balance field and the lamports it holds beyond
\* the rent are supplied by the environment.  c2 holds nothing yet, or an
\* account of another program.  Each wallet can pay one rent.
CloseInit ==
    /\ \E b \in {0, 1000}, extra \in {0, 500},
          other \in {ClosedAccount, ForeignVault} :
         closeStore = [a \in CloseAddrs |->
            CASE a = "c1" -> VaultAccount("A", b, minimum_balance(VaultSpace) + extra)
              [] a = "c2" -> other
              [] OTHER -> Wallet(100)]
    /\ closeResult = NoCloseOutcome
    /\ CpiIdle /\ AcctIdle

CloseNext ==
    \/ \E v \in VaultAddrs, k \in Keys, signed \in BOOLEAN, vault_signed \in BOOLEAN :
         InitializeVault05(v, k, signed, vault_signed) /\ UNCHANGED <<cpiVars, acctVars>>
    \/ \E v \in CloseAddrs, k \in Keys, signed \in BOOLEAN :
         CloseVaultSafe(v, k, signed) /\ UNCHANGED <<cpiVars, acctVars>>
    \/ \E v \in CloseAddrs, k \in Keys, signed \in BOOLEAN :
         CloseVaultExplicit(v, k, signed) /\ UNCHANGED <<cpiVars, acctVars>>
    \/ \E v \in CloseAddrs, k \in Keys, signed \in BOOLEAN, destination \in Keys :
         CloseValidatedDest(v, k, signed, destination) /\ UNCHANGED <<cpiVars, acctVars>>
    \/ \E v \in CloseAddrs, k \in Keys, signed \in BOOLEAN :
         CloseIfEmpty(v, k, signed) /\ UNCHANGED <<cpiVars, acctVars>>

SpecClosureSecure ==
    /\ CloseInit
    /\ [][CloseNext]_vars

\* ---------------------------------------------------------------- flash_loan alone
\* flash_loan as a function of the record it is handed: the vault's persisted
\* lock may be set or clear.
FlashLoanInit ==
    /\ \E b \in CpiBalances, locked \in BOOLEAN :
         cpiStore = [a \in CpiAddrs |->
            IF a = "v1"
            THEN [owner |-> CpiProgramId, tag |-> "Vault", authority |-> "A",
                  balance |-> b, locked |-> locked]
            ELSE UninitAccount]
    /\ cpiStack = <<>>
    /\ cpiResult = NoResult
    /\ AcctIdle /\ CloseIdle

FlashLoanNext ==
    \/ \E v \in CpiAddrs, auth \in Keys, signed \in BOOLEAN :
         FlashLoanCall(v, auth, signed) /\ UNCHANGED <<acctVars, closeVars>>
    \/ \E ok \in BOOLEAN : FlashLoanReturn(ok) /\ UNCHANGED <<acctVars, closeVars>>

SpecFlashLoan ==
    /\ FlashLoanInit
    /\ [][FlashLoanNext]_vars

\* ---------------------------------------------------------------- balance-changing operations
\* flash_loan, swap_tokens and transfer_with_validation on the ledger of
\* FlashLoanInit.
CpiBalanceNext ==
    \/ \E v \in CpiAddrs, auth \in Keys, signed \in BOOLEAN :
         FlashLoanCall(v, auth, signed) /\ UNCHANGED <<acctVars, closeVars>>
    \/ \E ok \in BOOLEAN : FlashLoanReturn(ok) /\ UNCHANGED <<acctVars, closeVars>>
    \/ \E v \in CpiAddrs, auth \in Keys, signed \in BOOLEAN :
         SwapTokensCall(v, auth, signed) /\ UNCHANGED <<acctVars, closeVars>>
    \/ \E ok \in BOOLEAN : SwapTokensReturn(ok) /\ UNCHANGED <<acctVars, closeVars>>
    \/ \E v \in CpiAddrs, auth \in Keys, signed \in BOOLEAN :
         TransferWithValidation(v, auth, signed)
            /\ UNCHANGED <<acctVars, closeVars>>

SpecCpiBalance ==
    /\ FlashLoanInit
    /\ [][CpiBalanceNext]_vars

\* ---------------------------------------------------------------- all secure programs
\* Each behaviour exercises one program: the one whose accounts the initial
\* ledger holds.
HostsCpi == cpiStore # [a \in CpiAddrs |-> UninitAccount]
HostsValidation == \E a \in DOMAIN acctStore : acctStore[a] # EmptyAccount
HostsClosure == closeStore # [a \in CloseAddrs |-> ClosedAccount]

\* One ledger per program: a vault of A next to a foreign record (04); A's
\* user account and vault, B's user account at the u64 maximum and a foreign
\* record (01); a vault of A next to a foreign record (05).
SecureInit ==
    \/ /\ cpiStore = [a \in CpiAddrs |->
            IF a = "v1"
            THEN [owner |-> CpiProgramId, tag |-> "Vault", authority |-> "A",
                  balance |-> 1000, locked |-> FALSE]
            ELSE ForeignAccount]
       /\ cpiStack = <<>>
       /\ cpiResult = NoResult
       /\ AcctIdle /\ CloseIdle
    \/ /\ acctStore = [a \in AcctAddrs \cup {ForeignAddr} |->
            CASE a = UserPda("A") -> UserRecord("A", 1000)
              [] a = VaultPda("A") -> VaultRecord("A", 1000)
              [] a = UserPda("B") -> UserRecord("B", U64_MAX)
              [] a = ForeignAddr -> ForeignUser
              [] OTHER -> EmptyAccount]
       /\ acctResult = NoOutcome
       /\ CpiIdle /\ CloseIdle
    \/ /\ \E b \in {0, 1000} :
            closeStore = [a \in CloseAddrs |->
               CASE a = "c1" -> VaultAccount("A", b, minimum_balance(VaultSpace))
                 [] a = "c2" -> ForeignVault
                 [] OTHER -> Wallet(100)]
       /\ closeResult = NoCloseOutcome
       /\ CpiIdle /\ AcctIdle

SecureNext ==
    \/ \E v \in CpiAddrs, auth \in Keys, signed \in BOOLEAN :
         HostsCpi /\ InitializeVault(v, auth, signed)
            /\ UNCHANGED <<acctVars, closeVars>>
    \/ \E v \in CpiAddrs, auth \in Keys, signed \in BOOLEAN :
         HostsCpi /\ FlashLoanCall(v, auth, signed)
            /\ UNCHANGED <<acctVars, closeVars>>
    \/ \E ok \in BOOLEAN :
         HostsCpi /\ FlashLoanReturn(ok) /\ UNCHANGED <<acctVars, closeVars>>
    \/ \E v \in CpiAddrs, auth \in Keys, signed \in BOOLEAN :
         HostsCpi /\ SwapTokensCall(v, auth, signed)
            /\ UNCHANGED <<acctVars, closeVars>>
    \/ \E ok \in BOOLEAN :
         HostsCpi /\ SwapTokensReturn(ok) /\ UNCHANGED <<acctVars, closeVars>>
    \/ \E v \in CpiAddrs, auth \in Keys, signed \in BOOLEAN :
         HostsCpi /\ ExecuteCallbackCall(v, auth, signed)
            /\ UNCHANGED <<acctVars, closeVars>>
    \/ \E ok \in BOOLEAN :
         HostsCpi /\ ExecuteCallbackReturn(ok) /\ UNCHANGED <<acctVars, closeVars>>
    \/ \E v \in CpiAddrs, auth \in Keys, signed \in BOOLEAN :
         HostsCpi /\ TransferWithValidation(v, auth, signed)
            /\ UNCHANGED <<acctVars, closeVars>>
    \/ \E a \in DOMAIN acctStore, k \in Keys, signed \in BOOLEAN, name \in Names :
         HostsValidation /\ Initialize(a, k, signed, name)
            /\ UNCHANGED <<cpiVars, closeVars>>
    \/ \E a \in DOMAIN acctStore, k \in Keys, signed \in BOOLEAN :
         HostsValidation /\ InitializeVault01(a, k, signed)
            /\ UNCHANGED <<cpiVars, closeVars>>
    \/ \E from \in DOMAIN acctStore, to \in DOMAIN acctStore, k \in Keys, signed \in BOOLEAN :
         HostsValidation /\ TransferPoints(from, to, k, signed)
            /\ UNCHANGED <<cpiVars, closeVars>>
    \/ \E v \in DOMAIN acctStore, k \in Keys, signed \in BOOLEAN :
         HostsValidation /\ Withdraw(v, k, signed)
            /\ UNCHANGED <<cpiVars, closeVars>>
    \/ \E v \in VaultAddrs, k \in Keys, signed \in BOOLEAN, vault_signed \in BOOLEAN :
         HostsClosure /\ InitializeVault05(v, k, signed, vault_signed)
            /\ UNCHANGED <<cpiVars, acctVars>>
    \/ \E v \in CloseAddrs, k \in Keys, signed \in BOOLEAN :
         HostsClosure /\ CloseVaultSafe(v, k, signed)
            /\ UNCHANGED <<cpiVars, acctVars>>
    \/ \E v \in CloseAddrs, k \in Keys, signed \in BOOLEAN :
         HostsClosure /\ CloseVaultExplicit(v, k, signed)
            /\ UNCHANGED <<cpiVars, acctVars>>
    \/ \E v \in CloseAddrs, k \in Keys, signed \in BOOLEAN, destination \in Keys :
         HostsClosure /\ CloseValidatedDest(v, k, signed, destination)
            /\ UNCHANGED <<cpiVars, acctVars>>
    \/ \E v \in CloseAddrs, k \in Keys, signed \in BOOLEAN :
         HostsClosure /\ CloseIfEmpty(v, k, signed)
            /\ UNCHANGED <<cpiVars, acctVars>>

SpecSecure ==
    /\ SecureInit
    /\ [][SecureNext]_vars

\* ================================================================
\* Properties of the secure CPI program
\* ================================================================
\* Errors raised by account validation, before the handler runs.
ValidationErrors ==
    {"AccountNotInitialized", "AccountOwnedByWrongProgram",
     "AccountDiscriminatorMismatch", "AccountNotSigner", "ConstraintHasOne",
     "AccountAlreadyInUse"}

HandlerRan(r) == r.op # "none" /\ r.err \notin ValidationErrors

\* C1: a flash_loan started while another flash_loan on the same vault is in
\* its external call fails with Reentrant and leaves the vault's balance and
\* lock unchanged; in particular no two flash_loan frames on one vault are
\* ever active together.
C1_ReentrancyExclusion ==
    /\ \A i, j \in 1..Len(cpiStack) :
         (i < j /\ cpiStack[i].op = "flash_loan" /\ cpiStack[j].op = "flash_loan")
            => cpiStack[i].vault # cpiStack[j].vault
    /\ (cpiResult.op = "flash_loan" /\ cpiResult.guarded /\ HandlerRan(cpiResult))
          => (cpiResult.err = "Reentrant" /\ cpiResult.post = cpiResult.pre)

\* C2: at the moment flash_loan has delegated to the callback, the vault's
\* persisted record is Locked and its balance is reduced by the amount lent.
C2_LockedBeforeDelegation ==
    (Depth > 0 /\ Top.op = "flash_loan")
       => /\ cpiStore[Top.vault].locked
          /\ cpiStore[Top.vault].balance = Top.initial - Top.amount

\* C3: flash_loan succeeds only if the balance re-read after the callback is
\* at least the pre-call balance plus the fee; when that comparison fails the
\* error is NotRepaid and the persisted vault is what it was before; a
\* successful flash_loan never lowers the vault's balance.
C3_RepaymentChecked ==
    (cpiResult.op = "flash_loan" /\ HandlerRan(cpiResult))
       => /\ cpiResult.err = "Ok"
             => /\ cpiResult.delegated /\ cpiResult.signal = "ok"
                /\ cpiResult.amount > 0
                /\ cpiResult.initial = cpiResult.pre.balance
                /\ cpiResult.atReturn >= cpiResult.pre.balance + cpiResult.fee
                /\ cpiResult.post.balance >= cpiResult.pre.balance
          /\ (/\ cpiResult.signal = "ok"
              /\ cpiResult.pre.balance + cpiResult.fee <= U64_MAX
              /\ cpiResult.atReturn < cpiResult.pre.balance + cpiResult.fee)
             => cpiResult.err = "NotRepaid"
          /\ cpiResult.err = "NotRepaid" => cpiResult.post = cpiResult.pre

C3_Witness ==
    /\ cpiResult.op = "flash_loan" /\ cpiResult.err = "Ok"
    /\ cpiResult.amount > 0 /\ cpiResult.depth = 0

\* C4: flash_loan clears the lock only on its success path; its failing paths
\* return without executing the unlock; and once no operation is in
\* progress the persisted lock of every vault is Idle.
C4_LockReleased ==
    /\ Depth = 0 => \A v \in CpiAddrs : ~cpiStore[v].locked
    /\ cpiResult.op = "flash_loan"
          => /\ cpiResult.unlocked <=> cpiResult.err = "Ok"
             /\ cpiResult.err \in {"InvalidAmount", "InsufficientBalance",
                                   "ProgramError"} => cpiResult.memLocked
             /\ ~cpiResult.post.locked

C4_Witness ==
    /\ Depth = 0
    /\ cpiResult.op = "flash_loan" /\ cpiResult.err = "InsufficientBalance"
    /\ cpiResult.memLocked /\ ~cpiStore[cpiResult.vault].locked

\* C5: every delegation in progress goes to a program on the hardcoded
\* allow-list (the Vault record stores no program identity).
C5_OnlyValidatedTargets ==
    \A i \in 1..Len(cpiStack) :
        cpiStack[i].target \in {TRUSTED_DEX_PROGRAM, TRUSTED_VALIDATOR}

\* C6: swap_tokens with a dex_program other than TRUSTED_DEX_PROGRAM and
\* execute_callback with an external_program other than TRUSTED_VALIDATOR fail
\* with InvalidProgram, without delegating and without changing the vault.
C6_UntrustedProgramRejected ==
    /\ (/\ cpiResult.op = "swap_tokens" /\ HandlerRan(cpiResult)
        /\ cpiResult.target # TRUSTED_DEX_PROGRAM)
          => /\ cpiResult.err = "InvalidProgram"
             /\ ~cpiResult.delegated
             /\ cpiResult.post = cpiResult.pre
    /\ (/\ cpiResult.op = "execute_callback" /\ HandlerRan(cpiResult)
        /\ cpiResult.target # TRUSTED_VALIDATOR)
          => /\ cpiResult.err = "InvalidProgram"
             /\ ~cpiResult.delegated
             /\ cpiResult.post = cpiResult.pre
    /\ \A i \in 1..Len(cpiStack) :
          /\ cpiStack[i].op = "swap_tokens"
                => cpiStack[i].supplied = TRUSTED_DEX_PROGRAM
          /\ cpiStack[i].op = "execute_callback"
                => cpiStack[i].supplied = TRUSTED_VALIDATOR

C6_Witness ==
    /\ cpiResult.op = "swap_tokens" /\ cpiResult.err = "InvalidProgram"
    /\ cpiResult.target = AttackerProgram
    /\ cpiResult.amount > 0 /\ cpiResult.amount <= cpiResult.pre.balance

\* C7: when the delegation signals failure the operation fails
\* (execute_callback with CallbackFailed) and the persisted vault is what it
\* was before the operation, whatever happened during the external call.
C7_FailedDelegationAborts ==
    (cpiResult.delegated /\ cpiResult.signal = "err")
       => /\ cpiResult.err # "Ok"
          /\ cpiResult.op = "execute_callback" => cpiResult.err = "CallbackFailed"
          /\ cpiResult.post = cpiResult.pre

C7_Witness ==
    /\ cpiResult.op = "execute_callback" /\ cpiResult.err = "CallbackFailed"
    /\ cpiResult.atReturn # cpiResult.pre.balance
    /\ cpiResult.post = cpiResult.pre

\* C8: execute_callback succeeds only if the balance reloaded after the
\* external call equals the balance recorded before it; a changed balance
\* gives UnexpectedStateChange; success leaves the balance unchanged.
C8_BalanceUnchangedByCallback ==
    (cpiResult.op = "execute_callback" /\ cpiResult.delegated)
       => /\ cpiResult.err = "Ok"
             => /\ cpiResult.atReturn = cpiResult.pre.balance
                /\ cpiResult.post.balance = cpiResult.pre.balance
          /\ (cpiResult.signal = "ok" /\ cpiResult.atReturn # cpiResult.pre.balance)
             => /\ cpiResult.err = "UnexpectedStateChange"
                /\ cpiResult.post = cpiResult.pre

C8_Witness ==
    /\ cpiResult.op = "execute_callback"
    /\ cpiResult.err = "UnexpectedStateChange"
    /\ cpiResult.atReturn < cpiResult.pre.balance

\* ================================================================
\* Properties of the secure account-validation program
\* ================================================================
\* Error names: the framework's ConstraintSeeds is the spec's
\* InvalidDerivation, ConstraintHasOne its Unauthorized, AccountNotSigner its
\* MissingSignature; InsufficientPoints / InsufficientBalance are its
\* InsufficientFunds.
AcctHandlerRan(r) ==
    r.op # "none" /\ r.err \in {"Ok", "InsufficientPoints", "Overflow",
                                "InsufficientBalance"}

\* C9: in transfer_points and withdraw the debit fails (InsufficientPoints /
\* InsufficientBalance) exactly when the amount exceeds the balance, the
\* credit fails with Overflow exactly when balance + amount exceeds the u64
\* maximum, and every stored points / balance value stays within the u64
\* range.
C9_CheckedArithmetic ==
    /\ \A a \in AcctAddrs :
          acctStore[a].points \in U64 /\ acctStore[a].balance \in U64
    /\ (acctResult.op = "transfer_points" /\ AcctHandlerRan(acctResult))
          => /\ acctResult.err = "InsufficientPoints"
                   <=> acctResult.amount > acctResult.aPre.points
             /\ acctResult.amount <= acctResult.aPre.points
                   => (acctResult.err = "Overflow"
                         <=> acctResult.bPre.points + acctResult.amount > U64_MAX)
    /\ (acctResult.op = "withdraw" /\ AcctHandlerRan(acctResult))
          => /\ acctResult.err = "InsufficientBalance"
                   <=> acctResult.amount > acctResult.aPre.balance
             /\ acctResult.err = "Ok"
                   => acctResult.aPost.balance
                         = acctResult.aPre.balance - acctResult.amount

C9_Witness ==
    /\ acctResult.op = "transfer_points" /\ acctResult.err = "Overflow"
    /\ acctResult.amount > 0 /\ acctResult.amount <= acctResult.aPre.points
    /\ acctResult.bPre.points + acctResult.amount > U64_MAX

OnVaultOfA(r) == r.op = "withdraw" /\ r.a = VaultPda("A") /\ r.aPre.authority = "A"

\* The first two steps of the withdraw scenario: from balance 1000, 1500 is
\* refused and 400 is paid out.
WithdrawScenarioBySigner ==
    /\ (/\ OnVaultOfA(acctResult) /\ acctResult.aPre.balance = 1000
        /\ acctResult.authority = "A" /\ acctResult.signed
        /\ acctResult.amount = 1500)
          => /\ acctResult.err = "InsufficientBalance"
             /\ acctResult.aPost.balance = 1000
    /\ (/\ OnVaultOfA(acctResult) /\ acctResult.aPre.balance = 1000
        /\ acctResult.authority = "A" /\ acctResult.signed
        /\ acctResult.amount = 400)
          => /\ acctResult.err = "Ok"
             /\ acctResult.aPost.balance = 600

\* C10 as stated: for A's vault holding 1000, withdrawing 1500 fails with
\* InsufficientFunds and leaves 1000; withdrawing 400 signed by A succeeds and
\* leaves 600; the same withdrawal signed by B fails with Unauthorized and
\* leaves 600.
C10_WithdrawScenario ==
    /\ WithdrawScenarioBySigner
    /\ (/\ OnVaultOfA(acctResult) /\ acctResult.aPre.balance = 600
        /\ acctResult.authority = "B" /\ acctResult.signed)
          => /\ acctResult.err = "ConstraintHasOne"
             /\ acctResult.aPost.balance = 600

\* C10 amended: as above, except that the withdrawal signed by B fails at
\* the address-derivation check (seeds constraint), and leaves 600.
C10_WithdrawScenarioAmended ==
    /\ WithdrawScenarioBySigner
    /\ (/\ OnVaultOfA(acctResult) /\ acctResult.aPre.balance = 600
        /\ acctResult.authority = "B" /\ acctResult.signed)
          => /\ acctResult.err = "ConstraintSeeds"
             /\ acctResult.aPost.balance = 600

C10_Witness ==
    /\ OnVaultOfA(acctResult) /\ acctResult.aPre.balance = 600
    /\ acctResult.authority = "B" /\ acctResult.signed
    /\ acctResult.err = "ConstraintSeeds"
    /\ acctStore[VaultPda("A")].balance = 600

\* C11: the secure withdraw succeeds only if the vault's stored authority
\* signed; when the authority named is the stored one but has not signed, the
\* call fails with AccountNotSigner (MissingSignature) and the vault is
\* unchanged; when it did sign, the outcome is decided by the vault record
\* and the amount alone.
C11_AuthoritySubstitutionImmunity ==
    acctResult.op = "withdraw"
       => /\ acctResult.err = "Ok"
                => /\ acctResult.signed
                   /\ acctResult.authority = acctResult.aPre.authority
          /\ (/\ ~acctResult.signed
              /\ AccountCheck(acctResult.aPre, "Vault") = "Ok")
                => /\ acctResult.err = "AccountNotSigner"
                   /\ acctResult.aPost = acctResult.aPre
          /\ (/\ acctResult.signed
              /\ AccountCheck(acctResult.aPre, "Vault") = "Ok"
              /\ acctResult.authority = acctResult.aPre.authority)
                => IF acctResult.amount > acctResult.aPre.balance
                   THEN acctResult.err = "InsufficientBalance"
                   ELSE acctResult.err = "Ok"

C11_Witness ==
    /\ acctResult.op = "withdraw" /\ ~acctResult.signed
    /\ acctResult.a = VaultPda("A")
    /\ acctResult.authority = acctResult.aPre.authority
    /\ acctResult.aPre.balance = 1000
    /\ acctResult.err = "AccountNotSigner"
    /\ acctStore[VaultPda("A")].balance = 1000

\* The seed of an account type.
SeedOf(tag) == IF tag = "UserAccount" THEN "user" ELSE "vault"

\* derive is a function of the seeds, and distinct seed sets have distinct
\* addresses.
DeriveUnique ==
    \A t1 \in {"user", "vault"}, k1 \in Keys, t2 \in {"user", "vault"}, k2 \in Keys :
       /\ create_program_address(t1, k1, find_program_address(t1, k1).bump)
             = {find_program_address(t1, k1).address}
       /\ find_program_address(t1, k1).address = find_program_address(t2, k2).address
             => t1 = t2 /\ k1 = k2

\* transfer_points and withdraw given a valid record at an address other
\* than the one derived from the signing authority fail at the seeds
\* constraint, and nothing changes.
MismatchRejected ==
    (/\ acctResult.op \in {"transfer_points", "withdraw"}
     /\ AccountCheck(acctResult.aPre, IF acctResult.op = "withdraw"
                                      THEN "Vault" ELSE "UserAccount") = "Ok"
     /\ acctResult.op = "transfer_points"
           => AccountCheck(acctResult.bPre, "UserAccount") = "Ok"
     /\ acctResult.signed
     /\ acctResult.a # find_program_address(SeedOf(acctResult.aPre.tag),
                                            acctResult.authority).address)
       => /\ acctResult.err = "ConstraintSeeds"
          /\ acctResult.aPost = acctResult.aPre
          /\ acctResult.bPost = acctResult.bPre

\* C14 as stated: derive is deterministic and unique; an account at another
\* address than the derived one fails with InvalidDerivation; an account at
\* an address of a non-canonical bump fails with NonCanonicalBump; nothing
\* changes in either case.
C14_DerivationSoundness ==
    /\ DeriveUnique
    /\ MismatchRejected
    /\ (/\ acctResult.op \in {"transfer_points", "withdraw"}
        /\ acctResult.a \in NonCanonicalAddrs)
          => /\ acctResult.err = "NonCanonicalBump"
             /\ acctResult.aPost = acctResult.aPre
             /\ acctResult.bPost = acctResult.bPre

\* C14 amended: as above, except that no account ever exists at an address
\* of a non-canonical bump: initialize and initialize_vault given one fail at
\* the seeds constraint, so transfer_points and withdraw given one fail with
\* AccountNotInitialized; no call ends with a NonCanonicalBump error.
C14_DerivationSoundnessAmended ==
    /\ DeriveUnique
    /\ MismatchRejected
    /\ \A a \in NonCanonicalAddrs : acctStore[a] = EmptyAccount
    /\ (/\ acctResult.op \in {"transfer_points", "withdraw"}
        /\ acctResult.a \in NonCanonicalAddrs)
          => /\ acctResult.err = "AccountNotInitialized"
             /\ acctResult.aPost = acctResult.aPre
             /\ acctResult.bPost = acctResult.bPre
    /\ (/\ acctResult.op \in {"initialize", "initialize_vault"}
        /\ acctResult.signed
        /\ acctResult.a \in NonCanonicalAddrs)
          => /\ acctResult.err = "ConstraintSeeds"
             /\ acctResult.aPost = acctResult.aPre
    /\ acctResult.err # "NonCanonicalBump"

C14_Witness ==
    /\ acctResult.op = "initialize" /\ acctResult.signed
    /\ acctResult.authority = "A"
    /\ acctResult.a = LowestPda("user", "A")
    /\ acctResult.a # UserPda("A")
    /\ acctResult.err = "ConstraintSeeds"
    /\ acctStore[acctResult.a] = EmptyAccount

\* Whether b is the first valid bump of the seeds, scanning from the maximum
\* down.
CanonicalBump(tag, key, b) ==
    /\ b \in Bumps /\ OffCurve(tag, key, b)
    /\ \A c \in Bumps : c > b => ~OffCurve(tag, key, c)

\* C15: every account of the program stores the canonical bump of its seeds
\* and sits at the address that bump derives; transfer_points and withdraw do
\* not change a stored bump, and succeed only on an account whose address is
\* the one its stored bump derives.
C15_CanonicalBump ==
    /\ \A a \in DOMAIN acctStore :
          acctStore[a].owner = ValidationProgramId
             => /\ CanonicalBump(SeedOf(acctStore[a].tag), acctStore[a].authority,
                                 acctStore[a].bump)
                /\ a = <<SeedOf(acctStore[a].tag), acctStore[a].authority,
                         acctStore[a].bump>>
    /\ (acctResult.op \in {"initialize", "initialize_vault"} /\ acctResult.err = "Ok")
          => CanonicalBump(SeedOf(acctResult.aPost.tag), acctResult.authority,
                           acctResult.aPost.bump)
    /\ acctResult.op \in {"transfer_points", "withdraw"}
          => /\ acctResult.aPost.bump = acctResult.aPre.bump
             /\ acctResult.bPost.bump = acctResult.bPre.bump
             /\ acctResult.err = "Ok"
                   => create_program_address(SeedOf(acctResult.aPre.tag),
                                             acctResult.authority,
                                             acctResult.aPre.bump) = {acctResult.a}

C15_Witness ==
    /\ acctResult.op = "initialize" /\ acctResult.err = "Ok"
    /\ acctResult.authority = "B"
    /\ acctResult.aPost.bump = find_program_address("user", "B").bump
    /\ \E c \in Bumps : c < acctResult.aPost.bump /\ OffCurve("user", "B", c)
    /\ acctStore[UserPda("B")].bump = acctResult.aPost.bump

\* ================================================================
\* Properties of the secure closure program
\* ================================================================
ClosureOps ==
    {"close_vault_safe", "close_vault_explicit",
     "close_with_validated_destination", "close_if_empty"}

\* Errors of ownership and schema verification (Account<'info, T>::try_from).
OwnershipErrors ==
    {"AccountNotInitialized", "AccountOwnedByWrongProgram",
     "AccountDiscriminatorNotFound", "AccountDiscriminatorMismatch"}

\* The last operation was a closure that succeeded.
Closed(r) == r.op \in ClosureOps /\ r.err = "Ok"

\* A successful closure pays the destination exactly the lamports the vault
\* held and leaves nothing at the vault's address.
ClosurePaysAndClears ==
    Closed(closeResult)
       => /\ closeResult.post[closeResult.destination].lamports
                = closeResult.pre[closeResult.destination].lamports
                     + closeResult.pre[closeResult.vault].lamports
          /\ closeResult.post[closeResult.vault] = ClosedAccount

\* At no vault address is the value gone while the data remains, or the data
\* gone while the value remains.
NoHalfClosedVault ==
    \A a \in VaultAddrs :
       /\ closeStore[a].lamports = 0 <=> closeStore[a].space = 0
       /\ closeStore[a].space = 0 => closeStore[a] = ClosedAccount

\* The operation names the address of a closed vault: c1 holds a vault
\* initially, so it holds nothing only after a closure.
OnClosedAddress(r) == r.vault = "c1" /\ r.pre["c1"] = ClosedAccount

\* C16 as stated: a successful closure pays the destination exactly the
\* vault's lamports and clears the vault; no half-closed vault is ever
\* stored; every later operation naming the address of a closed vault fails
\* (a closure: fails ownership / schema verification) and changes nothing.
C16_ClosureAtomicity ==
    /\ ClosurePaysAndClears
    /\ NoHalfClosedVault
    /\ (closeResult.op # "none" /\ OnClosedAddress(closeResult))
          => /\ closeResult.err # "Ok"
             /\ closeResult.op \in ClosureOps
                   => closeResult.err \in OwnershipErrors
             /\ closeResult.post = closeResult.pre

\* C16 amended: as above for the closure operations; initialize_vault is the
\* exception, as it creates a new vault at the address of a closed vault
\* when the address's key and the payer sign.  close_vault_explicit and
\* close_with_validated_destination never succeed: they end in
\* AccountDidNotSerialize at exit whenever their checks pass.
C16_ClosureAtomicityAmended ==
    /\ ClosurePaysAndClears
    /\ NoHalfClosedVault
    /\ (closeResult.op \in ClosureOps /\ OnClosedAddress(closeResult))
          => /\ closeResult.err = "AccountNotInitialized"
             /\ closeResult.post = closeResult.pre
    /\ (closeResult.op = "initialize_vault" /\ OnClosedAddress(closeResult))
          => closeResult.err \in {"Ok", "AccountNotSigner",
                                  "MissingRequiredSignature", "InsufficientLamports"}
    /\ closeResult.op \in {"close_vault_explicit", "close_with_validated_destination"}
          => closeResult.err # "Ok"

\* A second closure of c1, after the first one paid A.
C16_Witness ==
    /\ closeResult.op = "close_vault_safe" /\ closeResult.vault = "c1"
    /\ closeResult.authority = "A" /\ closeResult.signed
    /\ closeResult.pre["c1"] = ClosedAccount
    /\ closeResult.err = "AccountNotInitialized"
    /\ closeStore["A"].lamports = 100 + minimum_balance(VaultSpace) + 500
    /\ closeStore["c1"] = ClosedAccount

\* The closure names a vault of this program.
OnVault(r) == r.op \in ClosureOps /\ CloseAccountCheck(r.pre[r.vault]) = "Ok"

\* C17 as stated: a closure of a vault whose stored authority has not signed
\* (another signer, or the authority unsigned) fails with Unauthorized and
\* changes no account.
C17_ClosureAuthorization ==
    (/\ OnVault(closeResult)
     /\ \/ ~closeResult.signed
        \/ closeResult.authority # closeResult.pre[closeResult.vault].authority)
       => /\ closeResult.err = "ConstraintHasOne"
          /\ closeResult.post = closeResult.pre

\* C17 amended: a closure of a vault fails with AccountNotSigner
\* (MissingSignature) when the authority named has not signed, and with
\* ConstraintHasOne (Unauthorized) when the signer is not the stored
\* authority; no account changes.
C17_ClosureAuthorizationAmended ==
    /\ (OnVault(closeResult) /\ ~closeResult.signed)
          => /\ closeResult.err = "AccountNotSigner"
             /\ closeResult.post = closeResult.pre
    /\ (/\ OnVault(closeResult) /\ closeResult.signed
        /\ closeResult.authority # closeResult.pre[closeResult.vault].authority)
          => /\ closeResult.err = "ConstraintHasOne"
             /\ closeResult.post = closeResult.pre

C17_Witness ==
    /\ closeResult.op = "close_vault_safe" /\ closeResult.vault = "c1"
    /\ closeResult.pre["c1"].authority = "A"
    /\ closeResult.authority = "B" /\ closeResult.signed
    /\ closeResult.err = "ConstraintHasOne"
    /\ closeStore = closeResult.pre
    /\ closeStore["c1"].lamports > 0

\* C18: a successful closure changes only the vault and the wallet of the
\* vault's stored authority, which receives the lamports;
\* close_with_validated_destination given a destination other than the
\* authority fails with InvalidDestination and changes no account.
C18_DestinationValidation ==
    /\ Closed(closeResult)
          => /\ closeResult.destination
                   = closeResult.pre[closeResult.vault].authority
             /\ \A a \in CloseAddrs \ {closeResult.vault, closeResult.destination} :
                   closeResult.post[a] = closeResult.pre[a]
    /\ (/\ closeResult.op = "close_with_validated_destination"
        /\ OnVault(closeResult) /\ closeResult.signed
        /\ closeResult.authority = closeResult.pre[closeResult.vault].authority
        /\ closeResult.destination # closeResult.authority)
          => /\ closeResult.err = "InvalidDestination"
             /\ closeResult.post = closeResult.pre

C18_Witness ==
    /\ closeResult.op = "close_with_validated_destination"
    /\ closeResult.vault = "c1" /\ closeResult.authority = "A"
    /\ closeResult.signed /\ closeResult.destination = "B"
    /\ closeResult.err = "InvalidDestination"
    /\ closeStore["B"].lamports = 100
    /\ closeStore["c1"].tag = "Vault"

\* C19: close_if_empty succeeds exactly when it names a vault, the stored
\* authority signed and the balance field is zero; it then closes the vault
\* to the authority.  With a non-zero balance it fails with VaultNotEmpty and
\* changes no account.
C19_CloseIfEmpty ==
    closeResult.op = "close_if_empty"
       => /\ closeResult.err = "Ok"
                <=> /\ CloseAccountCheck(closeResult.pre[closeResult.vault]) = "Ok"
                    /\ closeResult.signed
                    /\ closeResult.authority
                          = closeResult.pre[closeResult.vault].authority
                    /\ closeResult.pre[closeResult.vault].balance = 0
          /\ closeResult.err = "Ok"
                => closeResult.post[closeResult.vault] = ClosedAccount
          /\ (/\ OnVault(closeResult) /\ closeResult.signed
              /\ closeResult.authority
                    = closeResult.pre[closeResult.vault].authority
              /\ closeResult.pre[closeResult.vault].balance # 0)
                => /\ closeResult.err = "VaultNotEmpty"
                   /\ closeResult.post = closeResult.pre

C19_Witness ==
    /\ closeResult.op = "close_if_empty" /\ closeResult.vault = "c1"
    /\ closeResult.authority = "A" /\ closeResult.signed
    /\ closeResult.pre["c1"].balance = 1000
    /\ closeResult.err = "VaultNotEmpty"
    /\ closeStore["c1"] = closeResult.pre["c1"]
    /\ closeStore["A"].lamports = closeResult.pre["A"].lamports

\* ================================================================
\* Properties of all secure programs

\* Operations of 04 and 01 on an existing record.
CpiRecordOps ==
    {"flash_loan", "swap_tokens", "execute_callback", "transfer_with_validation"}
ValidationRecordOps == {"transfer_points", "withdraw"}

\* The last operation named a vault of the CPI program.
OnCpiVault(r) ==
    r.op \in CpiRecordOps /\ r.pre.owner = CpiProgramId /\ r.pre.tag = "Vault"

\* The last operation named records of the account-validation program of the
\* types it expects.
OnValidationRecord(r) ==
    \/ /\ r.op = "transfer_points"
       /\ AccountCheck(r.aPre, "UserAccount") = "Ok"
       /\ AccountCheck(r.bPre, "UserAccount") = "Ok"
    \/ r.op = "withdraw" /\ AccountCheck(r.aPre, "Vault") = "Ok"

\* The operation took effect only with the signature of the stored authority;
\* without the signature it failed with AccountNotSigner, and with another
\* signer it failed with the error given; in both cases nothing changed.
BoundToAuthority(on, err, signed, authority, stored, unchanged, mismatch) ==
    on => /\ (err = "Ok" \/ ~unchanged) => (signed /\ authority = stored)
          /\ (~signed /\ authority = stored)
                => (err = "AccountNotSigner" /\ unchanged)
          /\ (signed /\ authority # stored) => (err = mismatch /\ unchanged)

CpiBound ==
    BoundToAuthority(OnCpiVault(cpiResult), cpiResult.err, cpiResult.signed,
                     cpiResult.authority, cpiResult.pre.authority,
                     cpiResult.post = cpiResult.pre, "ConstraintHasOne")

ValidationBound(mismatch) ==
    BoundToAuthority(OnValidationRecord(acctResult), acctResult.err,
                     acctResult.signed, acctResult.authority,
                     acctResult.aPre.authority,
                     acctResult.aPost = acctResult.aPre
                        /\ acctResult.bPost = acctResult.bPre, mismatch)

ClosureBound ==
    BoundToAuthority(OnVault(closeResult), closeResult.err, closeResult.signed,
                     closeResult.authority,
                     closeResult.pre[closeResult.vault].authority,
                     closeResult.post = closeResult.pre, "ConstraintHasOne")

\* C12 as stated: in every secure program an operation on an existing record
\* takes effect only when the record's stored authority has signed; it fails
\* with Unauthorized (ConstraintHasOne) when another signer is supplied and
\* with MissingSignature (AccountNotSigner) when the authority has not signed.
C12_AuthorityBinding ==
    CpiBound /\ ValidationBound("ConstraintHasOne") /\ ClosureBound

\* C12 amended: as above, except that transfer_points and withdraw of the
\* account-validation program reject another signer with ConstraintSeeds
\* (InvalidDerivation): the address derived from the signer's key is compared
\* before the stored authority.
C12_AuthorityBindingAmended ==
    CpiBound /\ ValidationBound("ConstraintSeeds") /\ ClosureBound

C12_Witness ==
    /\ acctResult.op = "transfer_points"
    /\ acctResult.a = UserPda("A") /\ acctResult.b = UserPda("B")
    /\ acctResult.aPre.authority = "A" /\ acctResult.aPre.points = 1000
    /\ acctResult.authority = "B" /\ acctResult.signed
    /\ acctResult.err = "ConstraintSeeds"
    /\ acctStore[UserPda("A")] = acctResult.aPre
    /\ acctStore[UserPda("B")] = acctResult.bPre

\* A record that is not of the given program, or not of the given type.
Mismatched(acc, program, tag) == acc.owner # program \/ acc.tag # tag

\* A record of some program other than the system program.
Exists(acc) == acc.owner # SystemProgram

CpiGate ==
    /\ (/\ cpiResult.op \in CpiRecordOps
        /\ Mismatched(cpiResult.pre, CpiProgramId, "Vault"))
          => /\ cpiResult.err \in OwnershipErrors
             /\ cpiResult.post = cpiResult.pre
             /\ cpiStore[cpiResult.vault] = cpiResult.pre
    /\ (/\ cpiResult.op = "initialize_vault" /\ Exists(cpiResult.pre)
        /\ Mismatched(cpiResult.pre, CpiProgramId, "Vault"))
          => /\ cpiResult.err # "Ok"
             /\ cpiResult.post = cpiResult.pre
             /\ cpiStore[cpiResult.vault] = cpiResult.pre

ValidationUnchanged ==
    /\ acctResult.aPost = acctResult.aPre /\ acctResult.bPost = acctResult.bPre
    /\ acctStore[acctResult.a] = acctResult.aPre
    /\ acctStore[acctResult.b] = acctResult.bPre

ValidationGate ==
    /\ (/\ acctResult.op = "transfer_points"
        /\ \/ Mismatched(acctResult.aPre, ValidationProgramId, "UserAccount")
           \/ Mismatched(acctResult.bPre, ValidationProgramId, "UserAccount"))
          => (acctResult.err \in OwnershipErrors /\ ValidationUnchanged)
    /\ (/\ acctResult.op = "withdraw"
        /\ Mismatched(acctResult.aPre, ValidationProgramId, "Vault"))
          => (acctResult.err \in OwnershipErrors /\ ValidationUnchanged)
    /\ (/\ acctResult.op = "initialize" /\ Exists(acctResult.aPre)
        /\ Mismatched(acctResult.aPre, ValidationProgramId, "UserAccount"))
          => (acctResult.err # "Ok" /\ ValidationUnchanged)
    /\ (/\ acctResult.op = "initialize_vault" /\ Exists(acctResult.aPre)
        /\ Mismatched(acctResult.aPre, ValidationProgramId, "Vault"))
          => (acctResult.err # "Ok" /\ ValidationUnchanged)

ClosureGate ==
    /\ (/\ closeResult.op \in ClosureOps
        /\ Mismatched(closeResult.pre[closeResult.vault], ClosureProgramId, "Vault"))
          => /\ closeResult.err \in OwnershipErrors
             /\ closeResult.post = closeResult.pre
             /\ closeStore = closeResult.pre
    /\ (/\ closeResult.op = "initialize_vault"
        /\ Exists(closeResult.pre[closeResult.vault])
        /\ Mismatched(closeResult.pre[closeResult.vault], ClosureProgramId, "Vault"))
          => /\ closeResult.err # "Ok"
             /\ closeResult.post = closeResult.pre
             /\ closeStore = closeResult.pre

\* C13: in every secure program an operation on an existing record fails with
\* an ownership or schema error (AccountNotInitialized,
\* AccountOwnedByWrongProgram, AccountDiscriminatorMismatch) when a record it
\* names is owned by another program or has another type, an initialization
\* naming such a record fails, and in both cases no record changes.
C13_OwnershipGate == CpiGate /\ ValidationGate /\ ClosureGate

C13_Witness ==
    /\ acctResult.op = "transfer_points"
    /\ acctResult.a = UserPda("A") /\ acctResult.b = ForeignAddr
    /\ acctResult.bPre.owner = OtherProgram
    /\ acctResult.bPre.tag = "UserAccount"
    /\ acctResult.authority = "A" /\ acctResult.signed
    /\ acctResult.err = "AccountOwnedByWrongProgram"
    /\ acctStore[UserPda("A")] = acctResult.aPre
    /\ acctStore[ForeignAddr] = acctResult.bPre

\* The last operation of a program ended with an error.
Failed(r) == r.op # "none" /\ r.err # "Ok"

\* C20: a transfer_points that fails with Overflow, after the debit has been
\* computed, leaves the persisted points of both accounts as they were; and
\* every operation of a secure program that fails leaves the records it names
\* as they were before it.
C20_NoPartialEffect ==
    /\ (acctResult.op = "transfer_points" /\ acctResult.err = "Overflow")
          => /\ acctStore[acctResult.a].points = acctResult.aPre.points
             /\ acctStore[acctResult.b].points = acctResult.bPre.points
    /\ Failed(acctResult) => ValidationUnchanged
    /\ Failed(cpiResult)
          => /\ cpiResult.post = cpiResult.pre
             /\ cpiStore[cpiResult.vault] = cpiResult.pre
    /\ Failed(closeResult)
          => /\ closeResult.post = closeResult.pre
             /\ closeStore = closeResult.pre

C20_Witness ==
    /\ acctResult.op = "transfer_points" /\ acctResult.err = "Overflow"
    /\ acctResult.a = UserPda("A") /\ acctResult.b = UserPda("B")
    /\ acctResult.amount = 1000
    /\ acctResult.aPre.points = 1000 /\ acctResult.bPre.points = U64_MAX
    /\ acctStore[UserPda("A")].points = 1000
    /\ acctStore[UserPda("B")].points = U64_MAX

\* ================================================================
\* Error kinds and check order of the secure CPI program

\* The checks before the balance test of the operation have passed.
ReachedBalanceCheck(r) ==
    /\ HandlerRan(r) /\ ~r.delegated /\ r.amount > 0
    /\ \/ r.op = "flash_loan" /\ ~r.pre.locked
       \/ r.op = "swap_tokens" /\ r.target = TRUSTED_DEX_PROGRAM
       \/ r.op = "transfer_with_validation"

\* The external call of the operation returned Ok.
Resumed(r, op) == r.op = op /\ r.delegated /\ r.signal = "ok"

\* The error reported for each arithmetic failure: the balance test before the
\* call, swap_tokens' subtraction from the reloaded balance, and flash_loan's
\* addition of the fee to the initial balance.
ErrorKinds(r, tested, subtracted, added) ==
    /\ (ReachedBalanceCheck(r) /\ r.amount > r.pre.balance) => r.err = tested
    /\ (Resumed(r, "swap_tokens") /\ r.amount > r.reloaded) => r.err = subtracted
    /\ (Resumed(r, "flash_loan") /\ r.initial + r.fee > U64_MAX) => r.err = added

\* C21 as stated: in flash_loan, swap_tokens and transfer_with_validation a
\* subtraction whose operand exceeds the balance, swap_tokens' subtraction
\* from the reloaded balance included, is reported as InsufficientFunds
\* (InsufficientBalance), and flash_loan's addition of the fee beyond the u64
\* maximum as Overflow.
C21_SpecificErrorKinds ==
    ErrorKinds(cpiResult, "InsufficientBalance", "InsufficientBalance", "Overflow")

\* C21 amended: the balance test before the external call reports
\* InsufficientBalance; swap_tokens' subtraction from the reloaded balance and
\* flash_loan's addition of the fee both report ArithmeticError.
C21_SpecificErrorKindsAmended ==
    ErrorKinds(cpiResult, "InsufficientBalance", "ArithmeticError", "ArithmeticError")

C21_Witness ==
    /\ Resumed(cpiResult, "swap_tokens")
    /\ cpiResult.amount = 1000 /\ cpiResult.pre.balance = 1000
    /\ cpiResult.reloaded = 0
    /\ cpiResult.err = "ArithmeticError"
    /\ cpiResult.post = cpiResult.pre

EntryErrors == {"Reentrant", "InvalidAmount", "InsufficientBalance"}

\* The last operation was a flash_loan whose handler ended before the call.
FlashLoanEnded(r) == r.op = "flash_loan" /\ HandlerRan(r) /\ ~r.delegated

\* C27: flash_loan on a locked vault fails with Reentrant whatever the amount;
\* on an unlocked vault amount = 0 fails with InvalidAmount, and otherwise an
\* amount above the balance fails with InsufficientBalance; a call failing so
\* persists nothing, and only calls that pass all three checks delegate.
C27_FlashLoanCheckOrder ==
    /\ FlashLoanEnded(cpiResult)
          => /\ cpiResult.pre.locked => cpiResult.err = "Reentrant"
             /\ (~cpiResult.pre.locked /\ cpiResult.amount = 0)
                   => cpiResult.err = "InvalidAmount"
             /\ (/\ ~cpiResult.pre.locked /\ cpiResult.amount > 0
                 /\ cpiResult.amount > cpiResult.pre.balance)
                   => cpiResult.err = "InsufficientBalance"
             /\ cpiResult.err \in EntryErrors
             /\ cpiResult.post = cpiResult.pre
             /\ cpiStore[cpiResult.vault] = cpiResult.pre
    /\ \A i \in 1..Len(cpiStack) :
          cpiStack[i].op = "flash_loan"
             => /\ ~cpiStack[i].snap[cpiStack[i].vault].locked
                /\ cpiStack[i].amount > 0
                /\ cpiStack[i].amount <= cpiStack[i].snap[cpiStack[i].vault].balance

C27_Witness ==
    /\ FlashLoanEnded(cpiResult)
    /\ cpiResult.pre.locked /\ cpiResult.pre.balance = 1000
    /\ cpiResult.amount = 1000
    /\ cpiResult.err = "Reentrant"
    /\ cpiStore[cpiResult.vault] = cpiResult.pre
    /\ cpiStack = <<>>

\* The last operation was a swap_tokens whose handler ended before the call.
SwapEnded(r) == r.op = "swap_tokens" /\ HandlerRan(r) /\ ~r.delegated

\* C28: a successful swap_tokens leaves the balance that the record held when
\* the external call returned, minus amount; before the call the handler
\* tests the program id, then amount > 0, then amount <= balance, failing
\* with InvalidProgram, InvalidAmount and InsufficientBalance; every failing
\* swap_tokens leaves the vault unchanged.
C28_SwapTokens ==
    /\ (Resumed(cpiResult, "swap_tokens") /\ cpiResult.err = "Ok")
          => /\ cpiResult.target = TRUSTED_DEX_PROGRAM
             /\ cpiResult.amount > 0
             /\ cpiResult.amount <= cpiResult.pre.balance
             /\ cpiResult.post.balance = cpiResult.atReturn - cpiResult.amount
             /\ cpiStore[cpiResult.vault] = cpiResult.post
    /\ SwapEnded(cpiResult)
          => /\ cpiResult.target # TRUSTED_DEX_PROGRAM
                   => cpiResult.err = "InvalidProgram"
             /\ (cpiResult.target = TRUSTED_DEX_PROGRAM /\ cpiResult.amount = 0)
                   => cpiResult.err = "InvalidAmount"
             /\ (/\ cpiResult.target = TRUSTED_DEX_PROGRAM /\ cpiResult.amount > 0
                 /\ cpiResult.amount > cpiResult.pre.balance)
                   => cpiResult.err = "InsufficientBalance"
    /\ (cpiResult.op = "swap_tokens" /\ cpiResult.err # "Ok")
          => /\ cpiResult.post = cpiResult.pre
             /\ cpiStore[cpiResult.vault] = cpiResult.pre

C28_Witness ==
    /\ Resumed(cpiResult, "swap_tokens") /\ cpiResult.err = "Ok"
    /\ cpiResult.amount = 1000
    /\ cpiResult.pre.balance = U64_MAX
    /\ cpiResult.atReturn = U64_MAX - 1000
    /\ cpiResult.post.balance = U64_MAX - 2000
    /\ cpiStore[cpiResult.vault].balance = U64_MAX - 2000

\* C29: transfer_with_validation never delegates; amount = 0 fails with
\* InvalidAmount and an amount above the balance with InsufficientBalance,
\* both leaving the vault unchanged; any other amount succeeds and lowers the
\* balance by exactly amount, authority and lock staying as they were.
C29_TransferWithValidation ==
    /\ (cpiResult.op = "transfer_with_validation" /\ HandlerRan(cpiResult))
          => /\ ~cpiResult.delegated
             /\ cpiResult.depth = Depth
             /\ cpiStore[cpiResult.vault] = cpiResult.post
             /\ cpiResult.amount = 0
                   => /\ cpiResult.err = "InvalidAmount"
                      /\ cpiResult.post = cpiResult.pre
             /\ cpiResult.amount > cpiResult.pre.balance
                   => /\ cpiResult.err = "InsufficientBalance"
                      /\ cpiResult.post = cpiResult.pre
             /\ (cpiResult.amount > 0 /\ cpiResult.amount <= cpiResult.pre.balance)
                   => /\ cpiResult.err = "Ok"
                      /\ cpiResult.post =
                            [cpiResult.pre EXCEPT
                                !.balance = cpiResult.pre.balance - cpiResult.amount]
    /\ \A i \in 1..Len(cpiStack) : cpiStack[i].op # "transfer_with_validation"

C29_Witness ==
    /\ cpiResult.op = "transfer_with_validation" /\ cpiResult.err = "Ok"
    /\ cpiResult.amount = 1000 /\ cpiResult.pre.balance = U64_MAX
    /\ cpiResult.post.balance = U64_MAX - 1000
    /\ cpiResult.post.authority = "A" /\ ~cpiResult.post.locked
    /\ cpiStore[cpiResult.vault] = cpiResult.post

\* ================================================================
\* Conservation of points (example 01, secure program)

RECURSIVE SumPoints(_, _)
SumPoints(store, addrs) ==
    IF addrs = {} THEN 0
    ELSE LET a == CHOOSE x \in addrs : TRUE
         IN store[a].points + SumPoints(store, addrs \ {a})

\* The points of all user accounts of the program.
TotalPoints(store) ==
    SumPoints(store, {a \in DOMAIN store :
                         /\ store[a].owner = ValidationProgramId
                         /\ store[a].tag = "UserAccount"})

\* C30: no operation of the secure program changes the sum of the points of
\* all user accounts; in particular a successful transfer_points, also one
\* whose from and to are the same account, leaves the sum as it was.
C30_PointsConserved ==
    [][TotalPoints(acctStore') = TotalPoints(acctStore)]_vars

\* ================================================================
\* Example 01, vulnerable program (missing_validation_vulnerable)
\* ================================================================
VulnerableValidationId == "Va1idW2Kzzz"

\* Operations run in one behaviour.
MaxSteps == 2

\* Option<u64> of `-=` and `+=` on u64 without checked_*: the build profile
\* decides what an overflow does.  With overflow-checks the operation panics
\* ({}); without, the result wraps around modulo 2^64.
sub_assign(b, a, overflow_checks) ==
    IF a > b
    THEN IF overflow_checks THEN {} ELSE {b - a + 2^U64Bits}
    ELSE {b - a}

add_assign(b, a, overflow_checks) ==
    IF b + a > U64_MAX
    THEN IF overflow_checks THEN {} ELSE {b + a - 2^U64Bits}
    ELSE {b + a}

\* What the runtime reports for an instruction whose program panicked.
Panicked == "ProgramFailedToComplete"

\* ua, ub: the user accounts of A and B; va: the vault of A; un: the address
\* of a keypair that holds no account yet.
VulnAcctAddrs == {"ua", "ub", "va", "un"}

\* The vulnerable UserAccount has no bump field; the vulnerable Vault has one
\* that no instruction writes.
VulnUser(key, points) ==
    [owner |-> VulnerableValidationId, tag |-> "UserAccount", authority |-> key,
     name |-> "alice", points |-> points, balance |-> 0, bump |-> 0]

VulnVault(key, balance) ==
    [owner |-> VulnerableValidationId, tag |-> "Vault", authority |-> key,
     name |-> "", points |-> 0, balance |-> balance, bump |-> 0]

\* Account<'info, T>::try_from of the vulnerable program.
VulnAccountCheck(acc, tag) ==
    IF acc.owner = SystemProgram THEN "AccountNotInitialized"
    ELSE IF acc.owner # VulnerableValidationId THEN "AccountOwnedByWrongProgram"
    ELSE IF acc.tag # tag THEN "AccountDiscriminatorMismatch"
    ELSE "Ok"

\* #[derive(Accounts)] Initialize: init without seeds.  The system program
\* creates the account: the authority and the new account sign, and the
\* address holds no account yet.
VulnInitAccounts(store, user_account, signed, account_signed) ==
    FirstError(<<
        SignerCheck(signed),
        Check(account_signed, "MissingRequiredSignature"),
        Check(store[user_account].owner = SystemProgram, "AccountAlreadyInUse") >>)

\* #[derive(Accounts)] TransferPoints: authority is a plain AccountInfo.
VulnTransferPointsAccounts(store, from, to) ==
    FirstError(<< VulnAccountCheck(store[from], "UserAccount"),
                  VulnAccountCheck(store[to], "UserAccount") >>)

\* #[derive(Accounts)] Withdraw: authority is a plain AccountInfo.
VulnWithdrawAccounts(store, vault) == VulnAccountCheck(store[vault], "Vault")

\* The outcome of the operation that completed last; vault_authority is the
\* key passed as instruction data, step the number of operations so far,
\* overflow_checks the build profile of the deployed program.
VulnOutcome(op, err, a, b, authority, amount, vault_authority, post) ==
    [op |-> op, err |-> err, a |-> a, b |-> b, authority |-> authority,
     amount |-> amount, vault_authority |-> vault_authority,
     aPre |-> acctStore[a], bPre |-> acctStore[b],
     aPost |-> post[a], bPost |-> post[b], step |-> acctResult.step + 1,
     overflow_checks |-> acctResult.overflow_checks]

NoVulnOutcome(overflow_checks) ==
    [op |-> "none", err |-> "none", a |-> "ua", b |-> "ua", authority |-> "A",
     amount |-> 0, vault_authority |-> "A",
     aPre |-> EmptyAccount, bPre |-> EmptyAccount,
     aPost |-> EmptyAccount, bPost |-> EmptyAccount, step |-> 0,
     overflow_checks |-> overflow_checks]

\* ---------------------------------------------------------------- initialize
\* lines 13-24
vulnerable_initialize(acc, authority, name) ==
    [acc EXCEPT !.authority = authority, !.name = name, !.points = 0]

VulnInitialize(user_account, authority, signed, account_signed, name) ==
    /\ acctResult.step < MaxSteps
    /\ LET verr == VulnInitAccounts(acctStore, user_account, signed, account_signed)
           created == [EmptyAccount EXCEPT !.owner = VulnerableValidationId,
                                           !.tag = "UserAccount"]
           post == IF verr = "Ok"
                   THEN [acctStore EXCEPT ![user_account] =
                           vulnerable_initialize(created, authority, name)]
                   ELSE acctStore
       IN /\ acctStore' = post
          /\ acctResult' = VulnOutcome("initialize", verr, user_account,
                                       user_account, authority, 0, authority, post)

\* ---------------------------------------------------------------- transfer_points
\* lines 39-49
vulnerable_transfer_points(from, to, amount, overflow_checks) ==
    LET sub == sub_assign(from.points, amount, overflow_checks)
        add == add_assign(to.points, amount, overflow_checks)
    IN IF sub = {} \/ add = {}
       THEN [err |-> Panicked, from |-> from, to |-> to]
       ELSE [err |-> "Ok",
             from |-> [from EXCEPT !.points = Unwrap(sub)],
             to |-> [to EXCEPT !.points = Unwrap(add)]]

VulnTransferPoints(from, to, authority) ==
    /\ acctResult.step < MaxSteps
    /\ LET verr == VulnTransferPointsAccounts(acctStore, from, to)
       IN IF verr # "Ok"
          THEN /\ acctResult' = VulnOutcome("transfer_points", verr, from, to,
                                            authority, 0, authority, acctStore)
               /\ UNCHANGED acctStore
          ELSE \E amount \in TransferAmounts :
               LET r == vulnerable_transfer_points(acctStore[from], acctStore[to],
                                    amount, acctResult.overflow_checks)
                   post == IF r.err = "Ok"
                           THEN TransferPointsExit(acctStore, from, to, r)
                           ELSE acctStore
               IN /\ acctStore' = post
                  /\ acctResult' = VulnOutcome("transfer_points", r.err, from, to,
                                               authority, amount, authority, post)

\* ---------------------------------------------------------------- withdraw
\* lines 60-63: require!(vault.authority == vault_authority, Unauthorized)
AuthorityMatchesData(vault, vault_authority) == vault.authority = vault_authority

\* lines 55-75
vulnerable_withdraw(vault, amount, vault_authority, overflow_checks) ==
    LET sub == sub_assign(vault.balance, amount, overflow_checks)
    IN IF ~AuthorityMatchesData(vault, vault_authority)
       THEN [err |-> "Unauthorized", vault |-> vault]
       ELSE IF sub = {}
       THEN [err |-> Panicked, vault |-> vault]
       ELSE [err |-> "Ok", vault |-> [vault EXCEPT !.balance = Unwrap(sub)]]

VulnWithdraw(vault, authority, vault_authority) ==
    /\ acctResult.step < MaxSteps
    /\ LET verr == VulnWithdrawAccounts(acctStore, vault)
       IN IF verr # "Ok"
          THEN /\ acctResult' = VulnOutcome("withdraw", verr, vault, vault,
                                            authority, 0, vault_authority, acctStore)
               /\ UNCHANGED acctStore
          ELSE \E amount \in WithdrawAmounts :
               LET r == vulnerable_withdraw(acctStore[vault], amount,
                                    vault_authority, acctResult.overflow_checks)
                   post == IF r.err = "Ok"
                           THEN [acctStore EXCEPT ![vault] = r.vault]
                           ELSE acctStore
               IN /\ acctStore' = post
                  /\ acctResult' = VulnOutcome("withdraw", r.err, vault, vault,
                                               authority, amount, vault_authority,
                                               post)

\* ---------------------------------------------------------------- specification
\* Points and balances are business payloads the environment supplies; the
\* build profile is fixed when the program is deployed.
VulnAcctInit ==
    /\ \E pA \in InitialPoints, pB \in InitialPoints, bA \in InitialBalances,
          overflow_checks \in BOOLEAN :
         /\ acctStore = [a \in VulnAcctAddrs |->
               CASE a = "ua" -> VulnUser("A", pA)
                 [] a = "ub" -> VulnUser("B", pB)
                 [] a = "va" -> VulnVault("A", bA)
                 [] OTHER -> EmptyAccount]
         /\ acctResult = NoVulnOutcome(overflow_checks)
    /\ CpiIdle /\ CloseIdle

VulnAcctNext ==
    \/ \E a \in VulnAcctAddrs, k \in Keys, signed \in BOOLEAN,
          account_signed \in BOOLEAN, name \in Names :
         VulnInitialize(a, k, signed, account_signed, name)
            /\ UNCHANGED <<cpiVars, closeVars>>
    \/ \E from \in VulnAcctAddrs, to \in VulnAcctAddrs, k \in Keys :
         VulnTransferPoints(from, to, k) /\ UNCHANGED <<cpiVars, closeVars>>
    \/ \E v \in VulnAcctAddrs, k \in Keys, vault_authority \in Keys :
         VulnWithdraw(v, k, vault_authority) /\ UNCHANGED <<cpiVars, closeVars>>

SpecValidationVulnerable ==
    /\ VulnAcctInit
    /\ [][VulnAcctNext]_vars


\* ---------------------------------------------------------------- properties
\* The last operation passed account deserialization.
VulnHandlerRan(r) == r.op # "none" /\ r.err \notin OwnershipErrors

\* C23: a withdraw by a caller who is not the vault's stored authority and who
\* passes their own key as vault_authority succeeds and lowers the vault's
\* balance by the amount.
C23_AuthorityFromInstructionData ==
    (/\ acctResult.op = "withdraw" /\ VulnHandlerRan(acctResult)
     /\ acctResult.authority # acctResult.aPre.authority
     /\ acctResult.vault_authority = acctResult.authority)
       => /\ acctResult.err = "Ok"
          /\ acctResult.aPost.balance
                = (acctResult.aPre.balance - acctResult.amount + 2^U64Bits)
                     % 2^U64Bits
          /\ acctStore[acctResult.a] = acctResult.aPost

\* C26: a transfer_points of an amount above from.points does not fail:
\* from.points wraps around to 2^64 - (amount - from.points), and to.points
\* becomes to.points + amount modulo 2^64.
C26_UncheckedArithmeticWraps ==
    (/\ acctResult.op = "transfer_points" /\ VulnHandlerRan(acctResult)
     /\ acctResult.amount > acctResult.aPre.points)
       => /\ acctResult.err = "Ok"
          /\ acctResult.a # acctResult.b
                => /\ acctStore[acctResult.a].points
                         = 2^U64Bits - (acctResult.amount - acctResult.aPre.points)
                   /\ acctStore[acctResult.a].points > acctResult.aPre.points
                   /\ acctStore[acctResult.b].points
                         = (acctResult.bPre.points + acctResult.amount) % 2^U64Bits


\* ================================================================
\* Example 04 (vulnerable): flash_loan without guard and without reload.
\* The program keeps its accounts in cpiStore, its waiting handlers in
\* cpiStack and its last outcome in cpiResult.
VulnerableCpiId == "CpiVu1n777"

\* Account<'info, Vault> and Signer<'info> deserialization of FlashLoan; the
\* struct has no has_one constraint.
VulnCpiTryAccounts(store, v, signed) ==
    IF store[v].owner = SystemProgram THEN "AccountNotInitialized"
    ELSE IF store[v].owner # VulnerableCpiId THEN "AccountOwnedByWrongProgram"
    ELSE IF store[v].tag # "Vault" THEN "AccountDiscriminatorMismatch"
    ELSE IF ~signed THEN "AccountNotSigner"
    ELSE "Ok"

\* Init constraint of InitializeVault: the authority signs, the account is new.
VulnCpiTryInit(store, v, signed) ==
    IF ~signed THEN "AccountNotSigner"
    ELSE IF store[v].owner # SystemProgram THEN "AccountAlreadyInUse"
    ELSE "Ok"

\* A handler waiting in its invoke: the in-memory copy, its locals, the
\* program it invoked, the store as it was when it began, and whether a
\* flash_loan on the same vault has been started from inside its callback.
VulnFrame(op, v, mem, amount, initial, target, auth, signed) ==
    [op |-> op, vault |-> v, mem |-> mem, amount |-> amount,
     initial |-> initial, target |-> target, snap |-> cpiStore,
     authority |-> auth, signed |-> signed, reentered |-> FALSE]

\* The outcome of the operation that completed last; overflow_checks is the
\* build profile of the deployed program, step the number of instructions
\* started so far.
VulnCpiOutcome(op, err, v, depth, pre, post) ==
    [op |-> op, err |-> err, vault |-> v, depth |-> depth,
     pre |-> pre, post |-> post, amount |-> 0, fee |-> 0, initial |-> 0,
     stale |-> 0, atReturn |-> 0, delegated |-> FALSE, signal |-> "none",
     target |-> "none", reentered |-> FALSE, authority |-> "none",
     signed |-> FALSE, overflow_checks |-> cpiResult.overflow_checks,
     step |-> cpiResult.step]

\* An instruction can start: the call depth and the length of the run allow it.
VulnCallable == Callable /\ cpiResult.step < MaxSteps

\* The outcome r of an instruction that has just started.
Started(r) == [r EXCEPT !.step = @ + 1]

NoVulnCpiOutcome(overflow_checks) ==
    [op |-> "none", err |-> "none", vault |-> "v1", depth |-> 0,
     pre |-> UninitAccount, post |-> UninitAccount, amount |-> 0, fee |-> 0,
     initial |-> 0, stale |-> 0, atReturn |-> 0, delegated |-> FALSE,
     signal |-> "none", target |-> "none", reentered |-> FALSE,
     authority |-> "none", signed |-> FALSE,
     overflow_checks |-> overflow_checks, step |-> 0]

\* The frames below the new one, with the frames on the same vault marked as
\* re-entered.
MarkReentered(stack, v) ==
    [i \in 1..Len(stack) |->
        IF stack[i].vault = v THEN [stack[i] EXCEPT !.reentered = TRUE]
        ELSE stack[i]]

\* An instruction rejected by the generated account validation.
VulnCpiReject(op, verr, v, auth, signed) ==
    /\ cpiResult' = Started([VulnCpiOutcome(op, verr, v, Depth, cpiStore[v],
                                            cpiStore[v])
                                EXCEPT !.authority = auth, !.signed = signed])
    /\ UNCHANGED <<cpiStore, cpiStack>>

\* A handler reached its invoke with the in-memory copy mem.
VulnCpiInvoke(op, v, mem, amount, initial, target, auth, signed, reenters) ==
    /\ cpiStack' = Append(IF reenters THEN MarkReentered(cpiStack, v) ELSE cpiStack,
                          VulnFrame(op, v, mem, amount, initial, target, auth,
                                    signed))
    /\ cpiResult' = Started([NoVulnCpiOutcome(cpiResult.overflow_checks)
                                EXCEPT !.step = cpiResult.step])
    /\ UNCHANGED cpiStore

\* The handler of the top frame ran to its end with outcome r after its
\* invoke returned ok or an error: on Ok the in-memory copy is serialized, on
\* an error the store is what it was when the instruction began.
VulnCpiFinish(r, ok) ==
    LET f == Top
    IN /\ cpiStore' = IF r.err = "Ok"
                      THEN Exit(cpiStore, f.vault, r.mem)
                      ELSE Abort(f.snap, f.vault, r.mem)
       /\ cpiResult' =
             [VulnCpiOutcome(f.op, r.err, f.vault, Depth - 1,
                             f.snap[f.vault], cpiStore'[f.vault])
                EXCEPT !.authority = f.authority, !.signed = f.signed,
                       !.amount = f.amount, !.fee = r.fee,
                       !.initial = f.initial, !.stale = f.mem.balance,
                       !.atReturn = cpiStore[f.vault].balance,
                       !.delegated = TRUE, !.target = f.target,
                       !.signal = IF ok THEN "ok" ELSE "err",
                       !.reentered = f.reentered]
       /\ cpiStack' = Pop

\* ---------------------------------------------------------------- initialize_vault
\* lines 11-19
vulnerable_initialize_vault(mem, auth) ==
    [mem EXCEPT !.authority = auth, !.balance = 0, !.locked = FALSE]

VulnInitializeVault(v, auth, signed) ==
    /\ VulnCallable
    /\ LET verr == VulnCpiTryInit(cpiStore, v, signed)
           created == [cpiStore EXCEPT ![v] = [@ EXCEPT !.owner = VulnerableCpiId,
                                                        !.tag = "Vault"]]
           mem == vulnerable_initialize_vault(Deserialize(created[v]), auth)
           post == IF verr = "Ok" THEN Exit(created, v, mem) ELSE cpiStore
       IN /\ cpiStore' = post
          /\ cpiResult' = Started([VulnCpiOutcome("initialize_vault", verr, v,
                                                  Depth, cpiStore[v], post[v])
                                      EXCEPT !.authority = auth,
                                             !.signed = signed])
    /\ UNCHANGED cpiStack

\* ---------------------------------------------------------------- flash_loan
\* lines 30-38: initial_balance = vault.balance; vault.balance -= amount.
\* err = "Invoke" means the handler reached the invoke.
vulnerable_flash_loan_enter(mem0, amount, overflow_checks) ==
    LET sub == sub_assign(mem0.balance, amount, overflow_checks)
    IN IF sub = {}
       THEN [err |-> Panicked, mem |-> mem0, initial |-> mem0.balance]
       ELSE [err |-> "Invoke", mem |-> [mem0 EXCEPT !.balance = Unwrap(sub)],
             initial |-> mem0.balance]

\* lines 49-67: the invoke has returned ok (TRUE) or an error (FALSE); the
\* in-memory copy is the one the handler held before the invoke.
vulnerable_flash_loan_resume(f, ok, overflow_checks) ==
    LET fee == f.amount \div 100
        expected == add_assign(f.initial, fee, overflow_checks)
    IN IF ~ok THEN [err |-> "ProgramError", mem |-> f.mem, fee |-> 0]
       ELSE IF expected = {}
       THEN [err |-> Panicked, mem |-> f.mem, fee |-> fee]
       ELSE IF ~(f.mem.balance >= Unwrap(expected))
       THEN [err |-> "NotRepaid", mem |-> f.mem, fee |-> fee]
       ELSE [err |-> "Ok", mem |-> f.mem, fee |-> fee]

VulnFlashLoanCall(v, auth, signed) ==
    /\ VulnCallable
    /\ LET verr == VulnCpiTryAccounts(cpiStore, v, signed)
       IN IF verr # "Ok"
          THEN VulnCpiReject("flash_loan", verr, v, auth, signed)
          ELSE \E amount \in CpiAmounts, callback_program \in CallbackPrograms :
               LET r == vulnerable_flash_loan_enter(Deserialize(cpiStore[v]),
                                    amount, cpiResult.overflow_checks)
               IN IF r.err # "Invoke"
                  THEN /\ cpiResult' = Started(
                            [VulnCpiOutcome("flash_loan", r.err, v, Depth,
                                            cpiStore[v], cpiStore[v])
                               EXCEPT !.authority = auth, !.signed = signed,
                                      !.amount = amount, !.initial = r.initial])
                       /\ UNCHANGED <<cpiStore, cpiStack>>
                  ELSE VulnCpiInvoke("flash_loan", v, r.mem, amount, r.initial,
                                     callback_program, auth, signed, TRUE)

VulnFlashLoanReturn(ok) ==
    /\ Depth > 0
    /\ Top.op = "flash_loan"
    /\ VulnCpiFinish(vulnerable_flash_loan_resume(Top, ok,
                                                  cpiResult.overflow_checks), ok)

\* ---------------------------------------------------------------- swap_tokens
\* lines 89-96: the invoke has returned; vault.balance -= amount.
vulnerable_swap_tokens_resume(f, ok, overflow_checks) ==
    LET sub == sub_assign(f.mem.balance, f.amount, overflow_checks)
    IN IF ~ok THEN [err |-> "ProgramError", mem |-> f.mem, fee |-> 0]
       ELSE IF sub = {} THEN [err |-> Panicked, mem |-> f.mem, fee |-> 0]
       ELSE [err |-> "Ok", mem |-> [f.mem EXCEPT !.balance = Unwrap(sub)],
             fee |-> 0]

\* lines 73-89: the program named in the instruction data is invoked.
VulnSwapTokensCall(v, auth, signed) ==
    /\ VulnCallable
    /\ LET verr == VulnCpiTryAccounts(cpiStore, v, signed)
       IN IF verr # "Ok"
          THEN VulnCpiReject("swap_tokens", verr, v, auth, signed)
          ELSE \E amount \in CpiAmounts, dex_program_id \in Programs :
               VulnCpiInvoke("swap_tokens", v, Deserialize(cpiStore[v]), amount,
                             cpiStore[v].balance, dex_program_id, auth, signed,
                             FALSE)

VulnSwapTokensReturn(ok) ==
    /\ Depth > 0
    /\ Top.op = "swap_tokens"
    /\ VulnCpiFinish(vulnerable_swap_tokens_resume(Top, ok,
                                                   cpiResult.overflow_checks), ok)

\* ---------------------------------------------------------------- execute_callback
\* lines 115-122: the invoke has returned; vault.balance += 100.
vulnerable_execute_callback_resume(f, ok, overflow_checks) ==
    LET add == add_assign(f.mem.balance, 100, overflow_checks)
    IN IF ~ok THEN [err |-> "ProgramError", mem |-> f.mem, fee |-> 0]
       ELSE IF add = {} THEN [err |-> Panicked, mem |-> f.mem, fee |-> 0]
       ELSE [err |-> "Ok", mem |-> [f.mem EXCEPT !.balance = Unwrap(add)],
             fee |-> 0]

\* lines 102-115: the program passed as external_program is invoked.
VulnExecuteCallbackCall(v, auth, signed) ==
    /\ VulnCallable
    /\ LET verr == VulnCpiTryAccounts(cpiStore, v, signed)
       IN IF verr # "Ok"
          THEN VulnCpiReject("execute_callback", verr, v, auth, signed)
          ELSE \E instruction_data \in InstructionData,
                  external_program \in Programs :
               VulnCpiInvoke("execute_callback", v, Deserialize(cpiStore[v]), 0,
                             cpiStore[v].balance, external_program, auth, signed,
                             FALSE)

VulnExecuteCallbackReturn(ok) ==
    /\ Depth > 0
    /\ Top.op = "execute_callback"
    /\ VulnCpiFinish(vulnerable_execute_callback_resume(Top, ok,
                                                cpiResult.overflow_checks), ok)

\* ---------------------------------------------------------------- transfer_with_validation
\* lines 142-149: the invoke has returned; vault.balance -= amount.
vulnerable_transfer_with_validation_resume(f, ok, overflow_checks) ==
    LET sub == sub_assign(f.mem.balance, f.amount, overflow_checks)
    IN IF ~ok THEN [err |-> "ProgramError", mem |-> f.mem, fee |-> 0]
       ELSE IF sub = {} THEN [err |-> Panicked, mem |-> f.mem, fee |-> 0]
       ELSE [err |-> "Ok", mem |-> [f.mem EXCEPT !.balance = Unwrap(sub)],
             fee |-> 0]

\* lines 128-142: the program named in the instruction data is invoked.
VulnTransferWithValidationCall(v, auth, signed) ==
    /\ VulnCallable
    /\ LET verr == VulnCpiTryAccounts(cpiStore, v, signed)
       IN IF verr # "Ok"
          THEN VulnCpiReject("transfer_with_validation", verr, v, auth, signed)
          ELSE \E amount \in CpiAmounts, validator_program \in Programs :
               VulnCpiInvoke("transfer_with_validation", v,
                             Deserialize(cpiStore[v]), amount,
                             cpiStore[v].balance, validator_program, auth,
                             signed, FALSE)

VulnTransferWithValidationReturn(ok) ==
    /\ Depth > 0
    /\ Top.op = "transfer_with_validation"
    /\ VulnCpiFinish(vulnerable_transfer_with_validation_resume(Top, ok,
                                                cpiResult.overflow_checks), ok)

\* ---------------------------------------------------------------- specification
VulnCpiVault(auth, balance) ==
    [owner |-> VulnerableCpiId, tag |-> "Vault", authority |-> auth,
     balance |-> balance, locked |-> FALSE]

\* v1: a vault of authority A holding some balance; v2: no account.  The
\* build profile is fixed when the program is deployed.
VulnCpiInit ==
    /\ \E b \in CpiBalances, overflow_checks \in BOOLEAN :
         /\ cpiStore = [a \in CpiAddrs |->
               IF a = "v1" THEN VulnCpiVault("A", b) ELSE UninitAccount]
         /\ cpiResult = NoVulnCpiOutcome(overflow_checks)
    /\ cpiStack = <<>>
    /\ AcctIdle /\ CloseIdle

VulnCpiNext ==
    \/ \E v \in CpiAddrs, k \in Keys, signed \in BOOLEAN :
         VulnInitializeVault(v, k, signed) /\ UNCHANGED <<acctVars, closeVars>>
    \/ \E v \in CpiAddrs, k \in Keys, signed \in BOOLEAN :
         VulnFlashLoanCall(v, k, signed) /\ UNCHANGED <<acctVars, closeVars>>
    \/ \E ok \in BOOLEAN :
         VulnFlashLoanReturn(ok) /\ UNCHANGED <<acctVars, closeVars>>
    \/ \E v \in CpiAddrs, k \in Keys, signed \in BOOLEAN :
         VulnSwapTokensCall(v, k, signed) /\ UNCHANGED <<acctVars, closeVars>>
    \/ \E ok \in BOOLEAN :
         VulnSwapTokensReturn(ok) /\ UNCHANGED <<acctVars, closeVars>>
    \/ \E v \in CpiAddrs, k \in Keys, signed \in BOOLEAN :
         VulnExecuteCallbackCall(v, k, signed) /\ UNCHANGED <<acctVars, closeVars>>
    \/ \E ok \in BOOLEAN :
         VulnExecuteCallbackReturn(ok) /\ UNCHANGED <<acctVars, closeVars>>
    \/ \E v \in CpiAddrs, k \in Keys, signed \in BOOLEAN :
         VulnTransferWithValidationCall(v, k, signed)
            /\ UNCHANGED <<acctVars, closeVars>>
    \/ \E ok \in BOOLEAN :
         VulnTransferWithValidationReturn(ok) /\ UNCHANGED <<acctVars, closeVars>>

SpecCpiVulnerable ==
    /\ VulnCpiInit
    /\ [][VulnCpiNext]_vars

\* C24: an outermost flash_loan of a positive amount within the balance,
\* whose callback returned Ok after calling flash_loan again on the same
\* vault, completes with Ok and leaves the vault with less than it held.
C24_ReentrancyDrains ==
    (/\ cpiResult.op = "flash_loan" /\ cpiResult.delegated
     /\ cpiResult.depth = 0 /\ cpiResult.signal = "ok"
     /\ cpiResult.reentered
     /\ cpiResult.amount > 0 /\ cpiResult.amount <= cpiResult.pre.balance)
       => /\ cpiResult.err = "Ok"
          /\ cpiResult.post.balance < cpiResult.pre.balance


\* ================================================================
\* Example 05 (vulnerable): closures without authority, signer or
\* destination checks.  The program keeps its accounts in closeStore and its
\* last outcome in closeResult.
VulnerableClosureId == "C1os3Vu1n99"

VulnCloseVault(authority, balance, lamports) ==
    [VaultAccount(authority, balance, lamports)
        EXCEPT !.owner = VulnerableClosureId]

\* Account<'info, Vault>::try_from: the only check CloseVaultBad and
\* CloseVaultUnsigned make; authority and destination are AccountInfo.
VulnCloseAccountCheck(acc) ==
    IF acc.owner = SystemProgram /\ acc.lamports = 0 THEN "AccountNotInitialized"
    ELSE IF acc.owner # VulnerableClosureId THEN "AccountOwnedByWrongProgram"
    ELSE IF acc.space < 8 THEN "AccountDiscriminatorNotFound"
    ELSE IF acc.tag # "Vault" THEN "AccountDiscriminatorMismatch"
    ELSE "Ok"

RECURSIVE SumLamports(_, _)
SumLamports(store, addrs) ==
    IF addrs = {} THEN 0
    ELSE LET a == CHOOSE x \in addrs : TRUE
         IN store[a].lamports + SumLamports(store, addrs \ {a})

\* What becomes of a handler that returned Ok: an instruction that changed
\* the sum of the lamports of its accounts is failed by the runtime, and an
\* account left without lamports ceases to exist.
Settle(pre, post) ==
    IF SumLamports(post, DOMAIN post) # SumLamports(pre, DOMAIN pre)
    THEN [err |-> "UnbalancedInstruction", store |-> pre]
    ELSE [err |-> "Ok",
          store |-> [a \in DOMAIN post |->
                       IF post[a].lamports = 0 THEN ClosedAccount ELSE post[a]]]

\* The outcome of the last operation and the number of operations so far.
VulnCloseOutcome(op, err, vault, authority, signed, destination, post) ==
    [op |-> op, err |-> err, vault |-> vault, authority |-> authority,
     signed |-> signed, destination |-> destination,
     pre |-> closeStore, post |-> post, step |-> closeResult.step + 1]

VulnNoCloseOutcome ==
    [op |-> "none", err |-> "none", vault |-> "c1", authority |-> "A",
     signed |-> FALSE, destination |-> "A",
     pre |-> [a \in CloseAddrs |-> ClosedAccount],
     post |-> [a \in CloseAddrs |-> ClosedAccount], step |-> 0]

\* A handler outcome is committed when Ok and discarded otherwise.
VulnCommit(op, r, vault, authority, signed, destination) ==
    LET post == IF r.err = "Ok" THEN r.store ELSE closeStore
    IN /\ closeResult.step < MaxSteps
       /\ closeStore' = post
       /\ closeResult' = VulnCloseOutcome(op, r.err, vault, authority, signed,
                                          destination, post)

VulnReject(op, verr, vault, authority, signed, destination) ==
    /\ closeResult.step < MaxSteps
    /\ closeResult' = VulnCloseOutcome(op, verr, vault, authority, signed,
                                       destination, closeStore)
    /\ UNCHANGED closeStore

\* lines 28-45: the vault's lamports are subtracted; the recipient is a key in
\* the instruction data and no account is credited.
close_vault_bad(store, vault, recipient) ==
    LET lamports == store[vault].lamports
    IN Settle(store, [store EXCEPT ![vault].lamports = @ - lamports])

CloseVaultBad(vault, authority, recipient) ==
    LET verr == VulnCloseAccountCheck(closeStore[vault])
    IN IF verr # "Ok"
       THEN VulnReject("close_vault_bad", verr, vault, authority, FALSE, recipient)
       ELSE VulnCommit("close_vault_bad",
                   close_vault_bad(closeStore, vault, recipient),
                   vault, authority, FALSE, recipient)

\* lines 54-67: the vault's lamports are moved to the destination account.
close_vault_unsigned(store, vault, destination) ==
    LET lamports == store[vault].lamports
        debited == [store EXCEPT ![vault].lamports = @ - lamports]
    IN Settle(store, [debited EXCEPT ![destination].lamports = @ + lamports])

CloseVaultUnsigned(vault, authority, destination) ==
    LET verr == VulnCloseAccountCheck(closeStore[vault])
    IN IF verr # "Ok"
       THEN VulnReject("close_vault_unsigned", verr, vault, authority, FALSE,
                   destination)
       ELSE VulnCommit("close_vault_unsigned",
                   close_vault_unsigned(closeStore, vault, destination),
                   vault, authority, FALSE, destination)

\* ---------------------------------------------------------------- initialize_vault
\* lines 10-17, after the account was created and funded by the payer.
vulnerable_initialize_vault_05(store, vault, authority) ==
    LET created == [[store EXCEPT ![authority].lamports =
                                      @ - minimum_balance(VaultSpace)]
                       EXCEPT ![vault] = VulnCloseVault("None", 0,
                                             minimum_balance(VaultSpace))]
        mem == [authority |-> authority, balance |-> 1000]
    IN Serialize(created, vault, mem)

VulnInitializeVault05(vault, authority, signed, vault_signed) ==
    LET verr == CloseInitAccounts(closeStore, vault, authority, signed, vault_signed)
    IN IF verr # "Ok"
       THEN VulnReject("initialize_vault", verr, vault, authority, signed, authority)
       ELSE VulnCommit("initialize_vault",
                   vulnerable_initialize_vault_05(closeStore, vault, authority),
                   vault, authority, signed, authority)

\* ---------------------------------------------------------------- close_to_any_destination
\* #[derive(Accounts)] CloseToAny: a vault of the program and a signer that
\* nothing ties to the vault.
CloseToAnyAccounts(store, account, signed) ==
    FirstError(<< VulnCloseAccountCheck(store[account]), SignerCheck(signed) >>)

\* lines 76-91: the lamports are moved, the data is reallocated to nothing,
\* and the exit code serializes the vault into it.
close_to_any_destination(store, account, destination) ==
    LET mem == [authority |-> store[account].authority,
                balance |-> store[account].balance]
        r == Serialize(drain_and_realloc(store, account, destination), account, mem)
    IN IF r.err # "Ok" THEN r ELSE Settle(store, r.store)

CloseToAnyDestination(account, authority, signed, destination) ==
    LET verr == CloseToAnyAccounts(closeStore, account, signed)
    IN IF verr # "Ok"
       THEN VulnReject("close_to_any_destination", verr, account, authority, signed,
                   destination)
       ELSE VulnCommit("close_to_any_destination",
                   close_to_any_destination(closeStore, account, destination),
                   account, authority, signed, destination)

\* ---------------------------------------------------------------- close_without_owner_check
\* lines 100-111: account and destination are plain AccountInfo.  The runtime
\* fails an instruction that lowered the lamports of an account its program
\* does not own.
close_without_owner_check(store, account, destination) ==
    LET lamports == store[account].lamports
        debited == [store EXCEPT ![account].lamports = @ - lamports]
        post == [debited EXCEPT ![destination].lamports = @ + lamports]
    IN IF /\ store[account].owner # VulnerableClosureId
          /\ post[account].lamports < store[account].lamports
       THEN [err |-> "ExternalAccountLamportSpend", store |-> store]
       ELSE Settle(store, post)

CloseWithoutOwnerCheck(account, authority, signed, destination) ==
    LET verr == SignerCheck(signed)
    IN IF verr # "Ok"
       THEN VulnReject("close_without_owner_check", verr, account, authority, signed,
                   destination)
       ELSE VulnCommit("close_without_owner_check",
                   close_without_owner_check(closeStore, account, destination),
                   account, authority, signed, destination)

\* c1 and c2 are vaults of A and of B as initialize_vault leaves them
\* (balance 1000), holding the rent and whatever was sent to them since.
VulnCloseInit ==
    /\ \E x1 \in {0, 500}, x2 \in {0, 500}, other \in BOOLEAN :
         closeStore = [a \in CloseAddrs |->
            CASE a = "c1" ->
                   VulnCloseVault("A", 1000, minimum_balance(VaultSpace) + x1)
              [] a = "c2" ->
                   IF other THEN ForeignVault
                   ELSE VulnCloseVault("B", 1000, minimum_balance(VaultSpace) + x2)
              [] OTHER -> Wallet(100)]
    /\ closeResult = VulnNoCloseOutcome
    /\ CpiIdle /\ AcctIdle

VulnCloseNext ==
    \/ \E v \in VaultAddrs, k \in Keys, recipient \in Keys :
         CloseVaultBad(v, k, recipient) /\ UNCHANGED <<cpiVars, acctVars>>
    \/ \E v \in VaultAddrs, k \in Keys, d \in CloseAddrs :
         CloseVaultUnsigned(v, k, d) /\ UNCHANGED <<cpiVars, acctVars>>
    \/ \E v \in VaultAddrs, k \in Keys, signed \in BOOLEAN, vault_signed \in BOOLEAN :
         VulnInitializeVault05(v, k, signed, vault_signed)
            /\ UNCHANGED <<cpiVars, acctVars>>
    \/ \E v \in VaultAddrs, k \in Keys, signed \in BOOLEAN, d \in CloseAddrs :
         CloseToAnyDestination(v, k, signed, d) /\ UNCHANGED <<cpiVars, acctVars>>
    \/ \E a \in CloseAddrs, k \in Keys, signed \in BOOLEAN, d \in CloseAddrs :
         CloseWithoutOwnerCheck(a, k, signed, d) /\ UNCHANGED <<cpiVars, acctVars>>

SpecClosureVulnerable ==
    /\ VulnCloseInit
    /\ [][VulnCloseNext]_vars

\* C25: close_vault_bad called on a vault of the program, by any caller and
\* for any recipient, returns Ok, leaves the vault closed and credits the
\* recipient with every lamport the vault held.
C25_CloseVaultBadSteals ==
    (/\ closeResult.op = "close_vault_bad"
     /\ VulnCloseAccountCheck(closeResult.pre[closeResult.vault]) = "Ok")
       => /\ closeResult.err = "Ok"
          /\ closeStore[closeResult.vault] = ClosedAccount
          /\ closeStore[closeResult.destination].lamports
                = closeResult.pre[closeResult.destination].lamports
                  + closeResult.pre[closeResult.vault].lamports


\* ---------------------------------------------------------------- validation before mutation
\* Addresses of accounts created by `init` without seeds (InitializeVault of
\* examples 04 and 05) and of wallets: the account signs its own creation, so
\* its address is the public key of a keypair and never a derived address.
KeypairAddrs == CpiAddrs \cup CloseAddrs

\* Errors raised by the generated account validation, before the handler.
RejectedBeforeHandler ==
    OwnershipErrors \cup {"AccountNotSigner", "ConstraintSeeds",
                          "ConstraintHasOne", "ConstraintClose",
                          "AccountAlreadyInUse"}

\* The last operation was one of ops and its handler was entered.
Entered(r, ops) == r.op \in ops /\ r.err \notin RejectedBeforeHandler

\* The last operation was one of ops and was rejected after ownership and
\* schema verification.
RejectedLater(r, ops) ==
    r.op \in ops /\ r.err \in RejectedBeforeHandler \ OwnershipErrors

\* Example 04: a handler is entered, and a vault changes, only on a vault of
\* the program whose stored authority signed (and, where derivation is
\* demanded, whose address is a derived one); a rejection other than an
\* ownership or schema error means ownership and schema had passed.
CpiValidated(derivation) ==
    /\ (Entered(cpiResult, CpiRecordOps)
          \/ (cpiResult.op \in CpiRecordOps /\ cpiResult.post # cpiResult.pre))
          => /\ ~Mismatched(cpiResult.pre, CpiProgramId, "Vault")
             /\ cpiResult.signed
             /\ cpiResult.authority = cpiResult.pre.authority
             /\ derivation => cpiResult.vault \notin KeypairAddrs
    /\ \A i \in 1..Len(cpiStack) :
          /\ ~Mismatched(cpiStack[i].snap[cpiStack[i].vault], CpiProgramId, "Vault")
          /\ cpiStack[i].signed
          /\ cpiStack[i].authority = cpiStack[i].snap[cpiStack[i].vault].authority
          /\ derivation => cpiStack[i].vault \notin KeypairAddrs
    /\ RejectedLater(cpiResult, CpiRecordOps)
          => ~Mismatched(cpiResult.pre, CpiProgramId, "Vault")

\* Example 01: as above, and the address of every named record is the one
\* derived from its kind, its stored authority and its stored bump.
ValidationValidated ==
    /\ (Entered(acctResult, {"transfer_points"})
          \/ (acctResult.op = "transfer_points" /\ ~ValidationUnchanged))
          => /\ ~Mismatched(acctResult.aPre, ValidationProgramId, "UserAccount")
             /\ ~Mismatched(acctResult.bPre, ValidationProgramId, "UserAccount")
             /\ acctResult.signed
             /\ acctResult.authority = acctResult.aPre.authority
             /\ SeedsMatch(acctResult.a, "user", acctResult.aPre.authority,
                           acctResult.aPre.bump)
             /\ SeedsMatch(acctResult.b, "user", acctResult.bPre.authority,
                           acctResult.bPre.bump)
    /\ (Entered(acctResult, {"withdraw"})
          \/ (acctResult.op = "withdraw" /\ ~ValidationUnchanged))
          => /\ ~Mismatched(acctResult.aPre, ValidationProgramId, "Vault")
             /\ acctResult.signed
             /\ acctResult.authority = acctResult.aPre.authority
             /\ SeedsMatch(acctResult.a, "vault", acctResult.aPre.authority,
                           acctResult.aPre.bump)
    /\ RejectedLater(acctResult, {"transfer_points"})
          => /\ ~Mismatched(acctResult.aPre, ValidationProgramId, "UserAccount")
             /\ ~Mismatched(acctResult.bPre, ValidationProgramId, "UserAccount")
    /\ RejectedLater(acctResult, {"withdraw"})
          => ~Mismatched(acctResult.aPre, ValidationProgramId, "Vault")

\* Example 05.
ClosureValidated(derivation) ==
    /\ (Entered(closeResult, ClosureOps)
          \/ (closeResult.op \in ClosureOps /\ closeResult.post # closeResult.pre))
          => /\ ~Mismatched(closeResult.pre[closeResult.vault],
                            ClosureProgramId, "Vault")
             /\ closeResult.signed
             /\ closeResult.authority = closeResult.pre[closeResult.vault].authority
             /\ derivation => closeResult.vault \notin KeypairAddrs
    /\ RejectedLater(closeResult, ClosureOps)
          => ~Mismatched(closeResult.pre[closeResult.vault],
                         ClosureProgramId, "Vault")

\* C22 as stated: in each of the secure programs 01, 04 and 05 an operation on
\* existing records enters its handler, and changes or closes a record, only
\* after every record it names has passed ownership and schema verification
\* and address-derivation verification and the authority check; ownership and
\* schema verification come before the other checks.
C22_ValidationBeforeMutation ==
    CpiValidated(TRUE) /\ ValidationValidated /\ ClosureValidated(TRUE)

\* C22 amended: as above, with address-derivation verification in example 01
\* only; the vaults of examples 04 and 05 live at keypair addresses and no
\* derivation is verified for them.
C22_ValidationBeforeMutationAmended ==
    CpiValidated(FALSE) /\ ValidationValidated /\ ClosureValidated(FALSE)

C22_Witness ==
    /\ acctResult.op = "withdraw" /\ acctResult.err = "Ok"
    /\ acctResult.a = VaultPda("A")
    /\ acctResult.authority = "A" /\ acctResult.signed
    /\ acctResult.aPre.authority = "A"
    /\ SeedsMatch(acctResult.a, "vault", "A", acctResult.aPre.bump)
    /\ acctResult.aPre.balance = 1000 /\ acctResult.amount = 400
    /\ acctStore[VaultPda("A")].balance = 600


\* ---------------------------------------------------------------- lock and the other entry points
\* C31: a swap_tokens or transfer_with_validation started on a vault while a
\* flash_loan on that vault is in its callback is rejected and changes
\* nothing, and while the flash_loan is in its callback the vault's persisted
\* balance is never below what it was when the flash_loan began.
C31_LockedVaultRejectsOthers ==
    /\ (/\ cpiResult.op \in {"swap_tokens", "transfer_with_validation"}
        /\ cpiResult.guarded
        /\ ~Mismatched(cpiResult.pre, CpiProgramId, "Vault"))
          => /\ cpiResult.err # "Ok"
             /\ cpiResult.post = cpiResult.pre
    /\ \A i \in 1..Len(cpiStack) :
          cpiStack[i].op = "flash_loan"
             => cpiStore[cpiStack[i].vault].balance
                   >= cpiStack[i].snap[cpiStack[i].vault].balance


\* ---------------------------------------------------------------- conservation on closure
\* C32: a closure operation of the secure program, successful or failed,
\* leaves the sum of the lamports of all accounts unchanged; a successful one
\* leaves the vault without lamports and a failed one leaves the lamports of
\* every account as they were.
C32_ClosureConservesLamports ==
    closeResult.op \in ClosureOps
       => /\ closeStore = closeResult.post
          /\ SumLamports(closeStore, CloseAddrs)
                = SumLamports(closeResult.pre, CloseAddrs)
          /\ closeResult.err = "Ok" => closeStore[closeResult.vault].lamports = 0
          /\ closeResult.err # "Ok"
                => \A a \in CloseAddrs :
                      closeStore[a].lamports = closeResult.pre[a].lamports

C32_Witness ==
    /\ closeResult.op = "close_if_empty" /\ closeResult.err = "Ok"
    /\ closeResult.vault = "c1" /\ closeResult.authority = "A"
    /\ closeResult.pre["c1"].lamports = minimum_balance(VaultSpace)
    /\ closeStore["c1"].lamports = 0
    /\ closeStore["A"].lamports
          = closeResult.pre["A"].lamports + minimum_balance(VaultSpace)
    /\ SumLamports(closeStore, CloseAddrs) = SumLamports(closeResult.pre, CloseAddrs)


\* ---------------------------------------------------------------- vaults the program created
\* The closure program on a ledger that holds no vault yet: every vault is
\* one that initialize_vault created.  Each wallet can pay the rent twice.
CloseFreshInit ==
    /\ closeStore = [a \in CloseAddrs |->
          IF a \in VaultAddrs THEN ClosedAccount ELSE Wallet(100)]
    /\ closeResult = NoCloseOutcome
    /\ CpiIdle /\ AcctIdle

\* Clients keep submitting: an initialize_vault or a close_if_empty signed by
\* a key, which can take effect again and again, is eventually processed.
CloseFairness ==
    \A v \in VaultAddrs, k \in Keys :
       /\ SF_vars(InitializeVault05(v, k, TRUE, TRUE)
                     /\ UNCHANGED <<cpiVars, acctVars>>)
       /\ SF_vars(CloseIfEmpty(v, k, TRUE) /\ UNCHANGED <<cpiVars, acctVars>>)

SpecClosureFresh ==
    /\ CloseFreshInit
    /\ [][CloseNext]_vars
    /\ CloseFairness

\* Every live vault of the program holds the balance initialize_vault gave it.
InitialBalanceKept ==
    \A a \in VaultAddrs :
       CloseAccountCheck(closeStore[a]) = "Ok" => closeStore[a].balance = 1000

\* C33: on a ledger whose vaults were all created by initialize_vault, a
\* close_if_empty eventually succeeds.
C33_CloseIfEmptyCanSucceed ==
    <>(closeResult.op = "close_if_empty" /\ closeResult.err = "Ok")


\* ---------------------------------------------------------------- one record per authority
\* The live records of the account-validation program of a type and an
\* authority.
RecordsOf(tag, key) ==
    {a \in DOMAIN acctStore :
        /\ acctStore[a].owner = ValidationProgramId
        /\ acctStore[a].tag = tag
        /\ acctStore[a].authority = key}

\* The first bump, scanning from the highest, that derives a valid address.
HighestValidBump(tag, key) ==
    CHOOSE b \in Bumps :
       /\ OffCurve(tag, key, b)
       /\ \A c \in Bumps : (c > b) => ~OffCurve(tag, key, c)

\* A successful initialization created, at the address derived from the
\* signer's key with the canonical bump, where no account was, a record of
\* the given type bound to the signer and holding nothing.
CreatedAtDerived(r, op, tag) ==
    (r.op = op /\ r.err = "Ok")
       => /\ r.signed
          /\ r.a = <<IF tag = "Vault" THEN "vault" ELSE "user", r.authority,
                     HighestValidBump(IF tag = "Vault" THEN "vault" ELSE "user",
                                      r.authority)>>
          /\ r.aPre.owner = SystemProgram
          /\ acctStore[r.a] = r.aPost
          /\ r.aPost.owner = ValidationProgramId /\ r.aPost.tag = tag
          /\ r.aPost.authority = r.authority
          /\ r.aPost.points = 0 /\ r.aPost.balance = 0
          /\ r.aPost.bump = r.a[3]

\* An initialization for an authority whose derived address already holds a
\* live record fails and leaves that record, and the accounts it named, as
\* they were.
SecondInitFails(r, op, seed) ==
    LET pda == find_program_address(seed, r.authority).address
        before == IF r.a = pda THEN r.aPre ELSE acctStore[pda]
    IN (r.op = op /\ before.owner # SystemProgram)
          => /\ r.err # "Ok"
             /\ ValidationUnchanged
             /\ acctStore[pda] = before

\* C34: initialize and initialize_vault create the record at the address
\* derived from the signer's key, with authority = signer, points / balance
\* 0 and the canonical bump; an initialization for an authority that already
\* has a live record fails and leaves that record unchanged; at most one
\* user account and at most one vault exist per authority.
C34_OneRecordPerAuthority ==
    /\ CreatedAtDerived(acctResult, "initialize", "UserAccount")
    /\ CreatedAtDerived(acctResult, "initialize_vault", "Vault")
    /\ SecondInitFails(acctResult, "initialize", "user")
    /\ SecondInitFails(acctResult, "initialize_vault", "vault")
    /\ \A k \in Keys :
          /\ Cardinality(RecordsOf("UserAccount", k)) <= 1
          /\ Cardinality(RecordsOf("Vault", k)) <= 1

C34_Witness ==
    /\ acctResult.op = "initialize" /\ acctResult.err = "AccountAlreadyInUse"
    /\ acctResult.authority = "B" /\ acctResult.signed
    /\ acctResult.a = UserPda("B")
    /\ acctResult.aPre = [UserRecord("B", 0) EXCEPT !.name = acctResult.aPre.name]
    /\ acctStore[UserPda("B")] = acctResult.aPre
    /\ RecordsOf("UserAccount", "B") = {UserPda("B")}
    /\ RecordsOf("Vault", "B") = {VaultPda("B")}
    /\ acctStore[VaultPda("B")].balance = 0


\* ---------------------------------------------------------------- unchecked arithmetic, by build
\* In a build without overflow checks a transfer_points of more than
\* from.points succeeds and both fields wrap around; in a build with overflow
\* checks it panics and every account keeps its points.
OverdrawnTransferByBuild ==
    (/\ acctResult.op = "transfer_points" /\ VulnHandlerRan(acctResult)
     /\ acctResult.amount > acctResult.aPre.points)
       => IF acctResult.overflow_checks
          THEN /\ acctResult.err = Panicked
               /\ acctStore[acctResult.a] = acctResult.aPre
               /\ acctStore[acctResult.b] = acctResult.bPre
          ELSE /\ acctResult.err = "Ok"
               /\ acctResult.a # acctResult.b
                     => /\ acctStore[acctResult.a].points
                              = 2^U64Bits - (acctResult.amount - acctResult.aPre.points)
                        /\ acctStore[acctResult.b].points
                              = (acctResult.bPre.points + acctResult.amount) % 2^U64Bits

\* A flash_loan of the vulnerable program whose invoke returned Ok and whose
\* arithmetic stayed inside u64 ends with NotRepaid and changes nothing,
\* whatever ran inside its callback.
StaleCheckNeverPasses ==
    (/\ cpiResult.op = "flash_loan" /\ cpiResult.delegated
     /\ cpiResult.signal = "ok"
     /\ cpiResult.amount > 0 /\ cpiResult.amount <= cpiResult.initial
     /\ cpiResult.initial + cpiResult.fee <= U64_MAX)
       => /\ cpiResult.err = "NotRepaid"
          /\ cpiResult.post = cpiResult.pre
          /\ cpiStore[cpiResult.vault] = cpiResult.pre

\* close_vault_bad on a vault of the program never succeeds.
CloseVaultBadNeverSucceeds ==
    (/\ closeResult.op = "close_vault_bad"
     /\ VulnCloseAccountCheck(closeResult.pre[closeResult.vault]) = "Ok")
       => /\ closeResult.err = "UnbalancedInstruction"
          /\ closeStore = closeResult.pre

====
